---- MODULE Spec2Model ----
(***************************************************************************)
(* Retail-AI-Builder: the Generative Design Engine                         *)
(* (backend/generativeDesignEngine.js), the AI quote generator             *)
(* (backend/aiQuoteGenerator.js) and the server handlers that call them.   *)
(*                                                                         *)
(* Numbers.  A JavaScript number is modelled as a rational <<n, d>> with   *)
(* d > 0 in lowest terms, and NaN as <<0, 0>>.  `undefined` in a numeric   *)
(* position is modelled as NaN too: every use the code makes of such a     *)
(* value is arithmetic or a comparison, where undefined behaves as NaN.    *)
(* Decimal literals of the source are written as exact fractions           *)
(* (0.75 is <<75, 100>>, 1.618 is <<1618, 1000>>).                         *)
(*                                                                         *)
(* Strings.  A quote is a sequence of tokens: maximal runs of ASCII text,  *)
(* and one token "U+XXXX" per non-ASCII code point, so that                *)
(* String.prototype.includes of an emoji is membership of its token.       *)
(* Asset names are sequences of one-character strings.                     *)
(***************************************************************************)
EXTENDS Integers, Sequences, FiniteSets, TLC

\* ------------------------------------------------------------------------
\* Bounds of the model
\* ------------------------------------------------------------------------
\* largest count for which the variant loop of generateLayoutVariants is run
MaxVariants == 2
\* largest count whose variations index / count are passed to generateLayout
MaxVariation == 4
\* largest count passed to generateQuoteVariations
MaxCount == 10

\* ------------------------------------------------------------------------
\* JavaScript numbers
\* ------------------------------------------------------------------------
NaN == <<0, 0>>

IsNaN(a) == a[2] = 0

Abs(n) == IF n < 0 THEN 0 - n ELSE n

RECURSIVE Gcd(_, _)
Gcd(a, b) == IF b = 0 THEN a ELSE Gcd(b, a % b)

\* the rational n/d in lowest terms with a positive denominator
Rat(n, d) ==
  IF d = 0 THEN NaN
  ELSE LET g == Gcd(Abs(n), Abs(d))
           s == IF d < 0 THEN 0 - 1 ELSE 1
       IN  <<(s * n) \div g, (s * d) \div g>>

Num(n) == <<n, 1>>

Add(a, b) == IF IsNaN(a) \/ IsNaN(b) THEN NaN
             ELSE Rat(a[1] * b[2] + b[1] * a[2], a[2] * b[2])

Sub(a, b) == IF IsNaN(a) \/ IsNaN(b) THEN NaN
             ELSE Rat(a[1] * b[2] - b[1] * a[2], a[2] * b[2])

Mul(a, b) == IF IsNaN(a) \/ IsNaN(b) THEN NaN
             ELSE LET g1 == Gcd(Abs(a[1]), b[2])
                      g2 == Gcd(Abs(b[1]), a[2])
                  IN  Rat((a[1] \div g1) * (b[1] \div g2),
                          (a[2] \div g2) * (b[2] \div g1))

\* a / b; division by zero gives Infinity in JavaScript, which no path of
\* the modelled code reaches with a finite non-zero numerator except through
\* a zero canvas area, excluded by the inputs
Div(a, b) == IF IsNaN(a) \/ IsNaN(b) \/ b[1] = 0 THEN NaN
             ELSE Mul(a, Rat(b[2], b[1]))

\* a < b, a > b, a <= b: false as soon as one side is NaN
Lt(a, b) == ~IsNaN(a) /\ ~IsNaN(b) /\ a[1] * b[2] < b[1] * a[2]
Gt(a, b) == Lt(b, a)
Le(a, b) == ~IsNaN(a) /\ ~IsNaN(b) /\ a[1] * b[2] <= b[1] * a[2]
Ge(a, b) == Le(b, a)

\* Math.max, Math.min, Math.floor
MathMax(a, b) == IF IsNaN(a) \/ IsNaN(b) THEN NaN ELSE IF Lt(a, b) THEN b ELSE a
MathMin(a, b) == IF IsNaN(a) \/ IsNaN(b) THEN NaN ELSE IF Lt(b, a) THEN b ELSE a
MathFloor(a) == IF IsNaN(a) THEN NaN ELSE Num(a[1] \div a[2])

\* a % b for a >= 0 and b > 0; a % 0 is NaN
Rem(a, b) == IF IsNaN(a) \/ IsNaN(b) \/ b[1] = 0 THEN NaN
             ELSE Rat((a[1] * b[2]) % (b[1] * a[2]), a[2] * b[2])

\* ------------------------------------------------------------------------
\* JavaScript property lookup on an object literal
\* ------------------------------------------------------------------------
\* property names every object literal inherits from Object.prototype
ObjectPrototypeKeys ==
  {"constructor", "toString", "valueOf", "hasOwnProperty", "__proto__"}

\* table[key] is an own entry ("own"), an inherited, truthy value that is not
\* an entry ("inherited"), or undefined ("absent")
KeyKind(table, key) ==
  IF key \in DOMAIN table THEN "own"
  ELSE IF key \in ObjectPrototypeKeys THEN "inherited"
  ELSE "absent"

Null == [isNull |-> TRUE]

\* ------------------------------------------------------------------------
\* generativeDesignEngine.js: tables
\* ------------------------------------------------------------------------
DESIGN_PRINCIPLES ==
  [ goldenRatio |-> Rat(1618, 1000),
    ruleOfThirds |-> [ horizontal |-> <<Rat(33, 100), Rat(66, 100)>>,
                       vertical   |-> <<Rat(33, 100), Rat(66, 100)>> ] ]

TONE_PARAMETERS ==
  [ neutral |->
      [ colors |-> [ background |-> <<"#ffffff", "#f8f9fa", "#e9ecef">>,
                     text |-> <<"#212529", "#495057">> ],
        spacing |-> [ normal |-> Rat(10, 100) ],
        composition |-> [ balance |-> Rat(5, 10), dynamism |-> Rat(3, 10) ] ],
    bold |->
      [ colors |-> [ background |-> <<"#0f172a", "#1e293b", "#334155">>,
                     text |-> <<"#ffffff", "#f1f5f9">> ],
        spacing |-> [ normal |-> Rat(8, 100) ],
        composition |-> [ balance |-> Rat(4, 10), dynamism |-> Rat(8, 10) ] ],
    playful |->
      [ colors |-> [ background |-> <<"#fef3c7", "#fde68a", "#fcd34d">>,
                     text |-> <<"#1f2937", "#374151">> ],
        spacing |-> [ normal |-> Rat(12, 100) ],
        composition |-> [ balance |-> Rat(6, 10), dynamism |-> Rat(7, 10) ] ],
    premium |->
      [ colors |-> [ background |-> <<"#111827", "#1f2937", "#374151">>,
                     text |-> <<"#ffffff", "#f3f4f6">> ],
        spacing |-> [ normal |-> Rat(10, 100) ],
        composition |-> [ balance |-> Rat(5, 10), dynamism |-> Rat(4, 10) ] ] ]

OBJECTIVE_STRATEGIES ==
  [ awareness |->
      [ focus |-> "visual-impact", imageSize |-> Rat(75, 100),
        textSize |-> Rat(25, 100), ctaStyle |-> "subtle",
        composition |-> "centered" ],
    conversion |->
      [ focus |-> "call-to-action", imageSize |-> Rat(6, 10),
        textSize |-> Rat(4, 10), ctaStyle |-> "prominent",
        composition |-> "balanced" ],
    sales |->
      [ focus |-> "product-prominence", imageSize |-> Rat(7, 10),
        textSize |-> Rat(3, 10), ctaStyle |-> "urgent",
        composition |-> "product-focused" ] ]

\* the value OBJECTIVE_STRATEGIES[key] of an inherited key (a function of
\* Object.prototype): every property the engine reads of it is undefined
InheritedStrategy ==
  [ focus |-> "undefined", imageSize |-> NaN, textSize |-> NaN,
    ctaStyle |-> "undefined", composition |-> "undefined" ]

PLATFORM_OPTIMIZATIONS ==
  [ square |-> [ dimensions |-> [ width |-> 1080, height |-> 1080 ],
                 safeZone |-> Num(40), textMaxCoverage |-> Rat(2, 10) ],
    story  |-> [ dimensions |-> [ width |-> 1080, height |-> 1920 ],
                 safeZone |-> Num(60), textMaxCoverage |-> Rat(15, 100) ],
    banner |-> [ dimensions |-> [ width |-> 1200, height |-> 628 ],
                 safeZone |-> Num(30), textMaxCoverage |-> Rat(25, 100) ] ]

\* the safeZone and textMaxCoverage read from PLATFORM_OPTIMIZATIONS[key] of
\* an inherited key: both undefined
InheritedRules == [ safeZone |-> NaN, textMaxCoverage |-> NaN ]

\* ------------------------------------------------------------------------
\* aiQuoteGenerator.js: quote banks
\* ------------------------------------------------------------------------
QUOTE_TEMPLATES ==
  [
  neutral |-> [
    awareness |-> <<
        <<"Discover What's New">>,
        <<"Explore Our Collection">>,
        <<"Welcome to Innovation">>,
        <<"Experience the Difference">>,
        <<"Your Journey Starts Here">>,
        <<"Quality Meets Design">>,
        <<"Elevate Your Style">>,
        <<"Where Innovation Lives">> >>,
    conversion |-> <<
        <<"Shop Now ", "U+2192">>,
        <<"Get Started Today">>,
        <<"Join Thousands of Happy Customers">>,
        <<"Start Your Journey">>,
        <<"Make It Yours">>,
        <<"Order Now & Save">>,
        <<"Try It Risk-Free">>,
        <<"Claim Your Offer ", "U+2192">> >>,
    sales |-> <<
        <<"Limited Time Offer">>,
        <<"Special Price Today">>,
        <<"Save Up to 50%">>,
        <<"Best Deal of the Season">>,
        <<"Exclusive Discount Inside">>,
        <<"Don't Miss Out">>,
        <<"Limited Stock Available">>,
        <<"Today Only: Special Pricing">> >> ],
  bold |-> [
    awareness |-> <<
        <<"BREAK THE MOLD">>,
        <<"DARE TO BE DIFFERENT">>,
        <<"REVOLUTIONARY DESIGN">>,
        <<"POWER UP YOUR LIFE">>,
        <<"UNLEASH YOUR POTENTIAL">>,
        <<"BOLD. BRAVE. BRILLIANT.">>,
        <<"CHANGE THE GAME">>,
        <<"FUTURE IS NOW">> >>,
    conversion |-> <<
        <<"ACT NOW ", "U+2192">>,
        <<"JOIN THE REVOLUTION">>,
        <<"MAKE YOUR MOVE">>,
        <<"SEIZE THE MOMENT">>,
        <<"TAKE ACTION TODAY">>,
        <<"GET IT NOW ", "U+2192">>,
        <<"DON'T WAIT">>,
        <<"START YOUR TRANSFORMATION">> >>,
    sales |-> <<
        <<"FLASH SALE: 50% OFF">>,
        <<"LIMITED TIME: ACT FAST">>,
        <<"MASSIVE SAVINGS NOW">>,
        <<"EXCLUSIVE DEAL INSIDE">>,
        <<"DON'T MISS THIS DEAL">>,
        <<"HUGE DISCOUNTS TODAY">>,
        <<"LAST CHANCE TO SAVE">>,
        <<"URGENT: LIMITED STOCK">> >> ],
  playful |-> [
    awareness |-> <<
        <<"Let's Have Some Fun! ", "U+1F389">>,
        <<"Your Happy Place Awaits">>,
        <<"Life's Too Short, Shop Now!">>,
        <<"Spread the Joy ", "U+2728">>,
        <<"Good Vibes Only">>,
        <<"Make Every Day Special">>,
        <<"Because You Deserve It ", "U+1F4AB">>,
        <<"Turn Heads, Make Smiles">> >>,
    conversion |-> <<
        <<"Let's Do This! ", "U+2192">>,
        <<"Join the Fun Party">>,
        <<"Your Adventure Starts Here">>,
        <<"Hop On Board! ", "U+1F680">>,
        <<"Make It Happen Today">>,
        <<"Say Yes to Awesome">>,
        <<"Ready? Set. Shop!">>,
        <<"Let's Make Magic Together">> >>,
    sales |-> <<
        <<"Surprise! Big Savings ", "U+1F381">>,
        <<"Treat Yourself Today">>,
        <<"Deal Alert! ", "U+1F6A8">>,
        <<"Save More, Smile More">>,
        <<"Your Lucky Day!">>,
        <<"Special Price Just for You">>,
        <<"Deals That Make You Smile">>,
        <<"Happy Shopping! ", "U+1F4B0">> >> ],
  premium |-> [
    awareness |-> <<
        <<"Crafted for Excellence">>,
        <<"Where Luxury Meets Innovation">>,
        <<"Elevate Your Experience">>,
        <<"Timeless Elegance">>,
        <<"Sophistication Redefined">>,
        <<"Premium Quality, Unmatched">>,
        <<"Excellence in Every Detail">>,
        <<"The Art of Refinement">> >>,
    conversion |-> <<
        <<"Experience Excellence ", "U+2192">>,
        <<"Join an Exclusive Circle">>,
        <<"Indulge in Premium Quality">>,
        <<"Elevate Your Lifestyle">>,
        <<"Discover Luxury">>,
        <<"Unlock Premium Access">>,
        <<"Invest in Excellence">>,
        <<"Choose Refinement">> >>,
    sales |-> <<
        <<"Exclusive Premium Offer">>,
        <<"Limited Edition Pricing">>,
        <<"VIP Discount Available">>,
        <<"Premium at Special Price">>,
        <<"Luxury Within Reach">>,
        <<"Exclusive Savings">>,
        <<"Premium Collection Sale">>,
        <<"Elegant Savings Await">> >> ] ]

AI_THEMED_QUOTES ==
  [
  neutral |-> [
    awareness |-> <<
        <<"Powered by AI Intelligence">>,
        <<"Where AI Meets Innovation">>,
        <<"Smart Solutions, Smarter Future">>,
        <<"AI-Driven Excellence">>,
        <<"Intelligence Redefined">>,
        <<"The Future is Intelligent">>,
        <<"AI That Understands You">>,
        <<"Next-Gen AI Technology">> >>,
    conversion |-> <<
        <<"Experience AI Magic ", "U+2192">>,
        <<"Unlock AI Potential">>,
        <<"Start Your AI Journey">>,
        <<"Join the AI Revolution">>,
        <<"Discover AI Solutions">>,
        <<"Transform with AI ", "U+2192">>,
        <<"AI-Powered Results">>,
        <<"Smart. Fast. Intelligent.">> >>,
    sales |-> <<
        <<"AI Technology at Best Price">>,
        <<"Limited: AI Premium Access">>,
        <<"Special AI Bundle Offer">>,
        <<"AI Solutions on Sale">>,
        <<"Exclusive AI Pricing">>,
        <<"AI Tools: Special Deal">>,
        <<"Smart Savings on AI">>,
        <<"AI Innovation Discount">> >> ],
  bold |-> [
    awareness |-> <<
        <<"AI REVOLUTION STARTS HERE">>,
        <<"POWERED BY ADVANCED AI">>,
        <<"INTELLIGENCE UNLEASHED">>,
        <<"AI THAT TRANSFORMS">>,
        <<"FUTURE-PROOF AI TECHNOLOGY">>,
        <<"BREAKTHROUGH AI INNOVATION">>,
        <<"AI-POWERED EXCELLENCE">>,
        <<"NEXT-LEVEL INTELLIGENCE">> >>,
    conversion |-> <<
        <<"ACTIVATE AI NOW ", "U+2192">>,
        <<"UNLEASH AI POWER">>,
        <<"TRANSFORM WITH AI">>,
        <<"JOIN THE AI MOVEMENT">>,
        <<"REVOLUTIONIZE YOUR WORKFLOW">>,
        <<"AI THAT DELIVERS RESULTS">>,
        <<"UPGRADE TO AI ", "U+2192">>,
        <<"MASTER AI TECHNOLOGY">> >>,
    sales |-> <<
        <<"AI PREMIUM: LIMITED OFFER">>,
        <<"MASSIVE AI SAVINGS NOW">>,
        <<"AI TOOLS: FLASH SALE">>,
        <<"EXCLUSIVE AI DISCOUNT">>,
        <<"AI BUNDLE: SPECIAL PRICE">>,
        <<"DON'T MISS AI DEAL">>,
        <<"AI ACCESS: TODAY ONLY">>,
        <<"URGENT: AI SALE ENDS SOON">> >> ],
  playful |-> [
    awareness |-> <<
        <<"AI That Gets You! ", "U+1F916", "U+2728">>,
        <<"Smart & Fun AI Solutions">>,
        <<"AI Magic at Your Fingertips">>,
        <<"Where AI Meets Creativity">>,
        <<"Fun Meets Intelligence ", "U+1F3A8">>,
        <<"AI That Makes Life Easier">>,
        <<"Your AI Companion Awaits">>,
        <<"Smart Tech, Happy Life">> >>,
    conversion |-> <<
        <<"Try AI Magic ", "U+2192", " ", "U+1F680">>,
        <<"Join the AI Fun!">>,
        <<"Let AI Do the Work">>,
        <<"AI That Makes You Smile">>,
        <<"Start Your AI Adventure">>,
        <<"Discover AI Wonders">>,
        <<"AI Made Simple & Fun">>,
        <<"Unlock AI Superpowers">> >>,
    sales |-> <<
        <<"AI Deals That Wow! ", "U+1F381">>,
        <<"Special AI Savings">>,
        <<"AI Tools on Sale!">>,
        <<"Your AI Deal Awaits">>,
        <<"Smart Savings on AI">>,
        <<"AI Bundle: Special Price">>,
        <<"Limited AI Offer">>,
        <<"AI Magic at Best Price">> >> ],
  premium |-> [
    awareness |-> <<
        <<"Enterprise-Grade AI Solutions">>,
        <<"Premium AI Intelligence">>,
        <<"Sophisticated AI Technology">>,
        <<"AI Crafted for Excellence">>,
        <<"Elite AI Performance">>,
        <<"Advanced AI Capabilities">>,
        <<"Premium AI Experience">>,
        <<"AI Excellence Redefined">> >>,
    conversion |-> <<
        <<"Access Premium AI ", "U+2192">>,
        <<"Experience Elite AI">>,
        <<"Unlock Advanced AI">>,
        <<"Join Premium AI Circle">>,
        <<"Discover Enterprise AI">>,
        <<"Elevate with Premium AI">>,
        <<"Invest in AI Excellence">>,
        <<"Choose Premium AI">> >>,
    sales |-> <<
        <<"Premium AI: Special Offer">>,
        <<"Exclusive AI Pricing">>,
        <<"VIP AI Access Discount">>,
        <<"Premium AI at Best Price">>,
        <<"Limited: Premium AI Deal">>,
        <<"Elite AI: Special Savings">>,
        <<"Premium AI Bundle Sale">>,
        <<"Exclusive AI Premium Deal">> >> ] ]

\* ------------------------------------------------------------------------
\* aiQuoteGenerator.js: functions
\* ------------------------------------------------------------------------
\* the value `undefined` where a quote is expected
UndefinedQuote == <<"undefined">>

\* the value `null` where a quote is expected
NullQuote == <<"null">>

\* the result of a call: a normal return of `value`, or a thrown TypeError
Return(v) == [threw |-> FALSE, value |-> v]
Throw == [threw |-> TRUE, value |-> Null]

\* an index that spreads the variations over length - 1 positions
QuoteIndexShort(variation, length) ==
  MathFloor(Mul(variation, Num(length - 1)))

\* Math.floor((variation * objectiveQuotes.length) % objectiveQuotes.length)
QuoteIndex(variation, length) ==
  MathFloor(Rem(Mul(variation, Num(length)), Num(length)))

\* objectiveQuotes[index] || objectiveQuotes[0]; array positions count from 0
\* in the source
QuoteAt(objectiveQuotes, variation) ==
  LET length == Len(objectiveQuotes)
      index == QuoteIndex(variation, length)
  IN  IF ~IsNaN(index) /\ index[1] \in 0 .. (length - 1)
        THEN objectiveQuotes[index[1] + 1]
      ELSE IF length > 0 THEN objectiveQuotes[1]
      ELSE UndefinedQuote

\* a lookup that takes the [neutral][awareness] list as soon as one of the two
\* keys finds nothing
generateQuoteWholeFallback(tone, objective, isAIThemed, variation) ==
  LET quoteBank == IF isAIThemed THEN AI_THEMED_QUOTES ELSE QUOTE_TEMPLATES
      toneKind == KeyKind(quoteBank, tone)
      objectiveKind == KeyKind(quoteBank.neutral, objective)
  IN  IF toneKind = "inherited"
        THEN IF objective \in ObjectPrototypeKeys
               THEN Return(UndefinedQuote)
               ELSE Throw
      ELSE IF objectiveKind = "inherited"
        THEN Return(UndefinedQuote)
      ELSE Return(QuoteAt(IF toneKind = "own" /\ objectiveKind = "own"
                            THEN quoteBank[tone][objective]
                          ELSE quoteBank.neutral.awareness, variation))

generateQuote(tone, objective, isAIThemed, variation) ==
  LET quoteBank == IF isAIThemed THEN AI_THEMED_QUOTES ELSE QUOTE_TEMPLATES
      toneKind == KeyKind(quoteBank, tone)
      toneQuotes == IF toneKind = "own" THEN quoteBank[tone]
                    ELSE quoteBank.neutral
      objectiveKind == KeyKind(toneQuotes, objective)
  IN  IF toneKind = "inherited"
        \* toneQuotes is a function object: its own-name properties are
        \* undefined, so objectiveQuotes is undefined and .length throws,
        \* unless objective names an inherited property as well, whose value
        \* has no element 0
        THEN IF objective \in ObjectPrototypeKeys
               THEN Return(UndefinedQuote)
               ELSE Throw
      ELSE IF objectiveKind = "inherited"
        THEN Return(UndefinedQuote)
      ELSE Return(QuoteAt(IF objectiveKind = "own" THEN toneQuotes[objective]
                          ELSE toneQuotes.awareness, variation))

\* the quotes pushed by the loop for i = from .. count - 1, or a throw
RECURSIVE QuoteLoop(_, _, _, _, _, _)
QuoteLoop(tone, objective, isAIThemed, count, i, quotes) ==
  IF i >= count THEN Return(quotes)
  ELSE LET q == generateQuote(tone, objective, isAIThemed, Rat(i, count))
       IN  IF q.threw THEN Throw
           ELSE QuoteLoop(tone, objective, isAIThemed, count, i + 1,
                          Append(quotes, q.value))

generateQuoteVariations(tone, objective, isAIThemed, count) ==
  QuoteLoop(tone, objective, isAIThemed, count, 0, <<>>)

aiKeywords ==
  << <<"a", "i">>,
     <<"a", "r", "t", "i", "f", "i", "c", "i", "a", "l">>,
     <<"i", "n", "t", "e", "l", "l", "i", "g", "e", "n", "c", "e">>,
     <<"m", "a", "c", "h", "i", "n", "e", " ",
       "l", "e", "a", "r", "n", "i", "n", "g">>,
     <<"m", "l">>,
     <<"n", "e", "u", "r", "a", "l">>,
     <<"a", "l", "g", "o", "r", "i", "t", "h", "m">>,
     <<"s", "m", "a", "r", "t">>,
     <<"a", "u", "t", "o", "m", "a", "t", "i", "o", "n">>,
     <<"t", "e", "c", "h">> >>

\* String.prototype.toLowerCase on the characters the inputs use
LowerOf ==
  [ A |-> "a", B |-> "b", C |-> "c", D |-> "d", E |-> "e", F |-> "f",
    G |-> "g", H |-> "h", I |-> "i", J |-> "j", K |-> "k", L |-> "l",
    M |-> "m", N |-> "n", O |-> "o", P |-> "p", Q |-> "q", R |-> "r",
    S |-> "s", T |-> "t", U |-> "u", V |-> "v", W |-> "w", X |-> "x",
    Y |-> "y", Z |-> "z" ]

toLowerCase(s) ==
  [k \in 1 .. Len(s) |-> IF s[k] \in DOMAIN LowerOf THEN LowerOf[s[k]] ELSE s[k]]

\* String.prototype.includes
includes(s, sub) ==
  \E k \in 0 .. (Len(s) - Len(sub)) : SubSeq(s, k + 1, k + Len(sub)) = sub

\* Array.prototype.join(' ')
RECURSIVE join(_)
join(parts) ==
  IF Len(parts) = 0 THEN <<>>
  ELSE IF Len(parts) = 1 THEN parts[1]
  ELSE parts[1] \o <<" ">> \o join(Tail(parts))

\* a keyword search that keeps the capitals of the text
detectAIThemeCaseSensitive(assets, metadata) ==
  LET searchText ==
        join([k \in 1 .. Len(assets) |-> assets[k].name]
             \o <<metadata.description, metadata.title, metadata.tags>>)
  IN  \E k \in 1 .. Len(aiKeywords) : includes(searchText, aiKeywords[k])

\* metadata is a record [description, title, tags] of character sequences
detectAITheme(assets, metadata) ==
  LET searchText ==
        toLowerCase(join([k \in 1 .. Len(assets) |-> assets[k].name]
                         \o <<metadata.description, metadata.title,
                              metadata.tags>>))
  IN  \E k \in 1 .. Len(aiKeywords) : includes(searchText, aiKeywords[k])

generateContextualQuote(tone, objective, assets, metadata, variation) ==
  generateQuote(tone, objective, detectAITheme(assets, metadata), variation)

EnhanceEmojis == <<"U+2728", "U+1F389", "U+1F680", "U+1F4AB", "U+1F381">>

HasToken(quote, token) == \E k \in 1 .. Len(quote) : quote[k] = token

\* an embellishment test that forgets the tone
EnhanceDrawsAnyTone(quote, tone) ==
  /\ quote # UndefinedQuote
  /\ ~HasToken(quote, "U+1F389")
  /\ ~HasToken(quote, "U+2728")

\* true when enhanceQuote reaches the Math.random() > 0.5 test
EnhanceDraws(quote, tone) ==
  /\ tone = "playful"
  /\ quote # UndefinedQuote
  /\ ~HasToken(quote, "U+1F389")
  /\ ~HasToken(quote, "U+2728")

\* an embellishment applied whatever the tone
enhanceQuoteAnyTone(quote, tone, gate, pick) ==
  IF quote = UndefinedQuote
    THEN Throw
  ELSE IF ~HasToken(quote, "U+1F389") /\ ~HasToken(quote, "U+2728") /\ gate
    THEN Return(quote \o <<" ", EnhanceEmojis[pick + 1]>>)
  ELSE Return(quote)

\* gate: the outcome of Math.random() > 0.5; pick: the outcome of
\* Math.floor(Math.random() * emojis.length)
enhanceQuote(quote, tone, gate, pick) ==
  IF tone = "playful" /\ quote = UndefinedQuote
    THEN Throw     \* undefined.includes
  ELSE IF EnhanceDraws(quote, tone) /\ gate
    THEN Return(quote \o <<" ", EnhanceEmojis[pick + 1]>>)
  ELSE Return(quote)

\* ------------------------------------------------------------------------
\* generativeDesignEngine.js: functions
\* ------------------------------------------------------------------------
\* The outcomes of the Math.random() calls of one generateLayout call:
\*   jx, jy  the two draws of the default composition branch
\*   logo    Math.floor(Math.random() * positions.length)
\*   gate, pick   the two draws of enhanceQuote
\*   ty      the draw of the dynamic text position
\*   now     the reading Date.now() of the id, in milliseconds
\*   rnd     the string Math.random().toString(36) of the id
\* A draw the call does not make is recorded as 0 (FALSE for gate).
\* Outcomes of Math.random().toString(36): "0." followed by the base-36
\* digits of the number.  The first two outcomes differ only after their
\* ninth digit; the fourth is the outcome of 0.5.
RandomStrings ==
  << <<"0", ".", "4", "f", "z", "y", "o", "8", "2", "m", "v", "y", "r">>,
     <<"0", ".", "4", "f", "z", "y", "o", "8", "2", "m", "v", "z", "3">>,
     <<"0", ".", "k", "7", "x", "3", "j", "9", "d", "2", "m", "5", "p">>,
     <<"0", ".", "i">>,
     <<"0", ".", "9", "c", "1", "q", "h", "w", "0", "s", "7", "a", "b">>,
     <<"0", ".", "z", "t", "5", "e", "8", "n", "3", "l", "q", "2", "f">>,
     <<"0", ".", "1", "r", "8", "s", "2", "k", "6", "w", "0", "h", "d">> >>

\* String.prototype.substr(start, length) for 0 <= start
substr(s, start, length) ==
  SubSeq(s, start + 1,
         IF start + length < Len(s) THEN start + length ELSE Len(s))

\* `gen-${Date.now()}-${Math.random().toString(36).substr(2, 9)}`: the clock
\* reading and the suffix, the two parts of the string that vary
LayoutId(now, rnd) ==
  [prefix |-> "gen-", now |-> now, suffix |-> substr(rnd, 2, 9)]

JitterDraws == {Rat(0, 10), Rat(9, 10)}
LogoDraws == {0, 1}
PickDraws == 0 .. 4
TextDraws == {Rat(0, 100), Rat(99, 100)}

\* a clamp that keeps only the near edge in the safe zone
ClampNearEdgeOnly(v, size, extent, safeZone) == MathMax(safeZone, v)

\* a clamp with Math.min and Math.max exchanged
ClampMinMaxSwapped(v, size, extent, safeZone) ==
  MathMin(safeZone, MathMax(v, Sub(Sub(extent, size), safeZone)))

\* "Ensure within safe zone":
\* Math.max(safeZone, Math.min(v, extent - size - safeZone))
ClampToSafeZone(v, size, extent, safeZone) ==
  MathMax(safeZone, MathMin(v, Sub(Sub(extent, size), safeZone)))

\* rx, ry: the outcomes of Math.random() in the default branch
generateMainAssetPosition(width, height, objectiveStrategy, platformOpts, dynamism, rx, ry) ==
  LET imageSize == objectiveStrategy.imageSize
      composition == objectiveStrategy.composition
      w == Num(width)
      h == Num(height)
      assetWidth == Mul(w, imageSize)
      assetHeight == Mul(h, imageSize)
      goldenX == Div(w, DESIGN_PRINCIPLES.goldenRatio)
      thirdX == Mul(w, DESIGN_PRINCIPLES.ruleOfThirds.horizontal[1])
      thirdY == Mul(h, DESIGN_PRINCIPLES.ruleOfThirds.vertical[1])
      offsetX == Mul(Mul(Mul(Sub(rx, Rat(5, 10)), dynamism), w), Rat(3, 10))
      offsetY == Mul(Mul(Mul(Sub(ry, Rat(5, 10)), dynamism), h), Rat(3, 10))
      x0 == CASE composition = "centered" ->
                   Div(Sub(w, assetWidth), Num(2))
              [] composition = "balanced" ->
                   Sub(goldenX, Div(assetWidth, Num(2)))
              [] composition = "product-focused" -> thirdX
              [] OTHER -> Add(Div(Sub(w, assetWidth), Num(2)), offsetX)
      y0 == CASE composition = "centered" ->
                   Div(Sub(h, assetHeight), Num(2))
              [] composition = "balanced" -> Mul(h, Rat(2, 10))
              [] composition = "product-focused" -> thirdY
              [] OTHER -> Add(Div(Sub(h, assetHeight), Num(2)), offsetY)
      x == ClampToSafeZone(x0, assetWidth, w, platformOpts.safeZone)
      y == ClampToSafeZone(y0, assetHeight, h, platformOpts.safeZone)
  IN  [ x |-> MathFloor(x), y |-> MathFloor(y),
        width |-> MathFloor(assetWidth), height |-> MathFloor(assetHeight),
        anchor |-> "center", scale |-> Num(1) ]

\* pick: the outcome of Math.floor(Math.random() * positions.length)
generateLogoPosition(width, height, toneParams, platformOpts, pick) ==
  LET safeZone == platformOpts.safeZone
      positions ==
        << [ x |-> safeZone, y |-> safeZone, anchor |-> "top-left" ],
           [ x |-> Sub(Sub(Num(width), Num(140)), safeZone), y |-> safeZone,
             anchor |-> "top-right" ] >>
      position == positions[pick + 1]
  IN  [ x |-> position.x, y |-> position.y, width |-> Num(140),
        height |-> Num(50), anchor |-> position.anchor,
        opacity |-> Rat(95, 100) ]

TextStyles ==
  [ subtle |-> [ fontSize |-> 28, fontWeight |-> "medium",
                 backgroundColor |-> "rgba(0,0,0,0.4)", padding |-> 16 ],
    prominent |-> [ fontSize |-> 36, fontWeight |-> "bold",
                    backgroundColor |-> "rgba(0,0,0,0.7)", padding |-> 20 ],
    urgent |-> [ fontSize |-> 32, fontWeight |-> "bold",
                 backgroundColor |-> "rgba(239,68,68,0.9)", padding |-> 18 ] ]

\* true when generateTextOverlay takes the dynamic-positioning branch and
\* draws the text position
TextDrawn(objectiveStrategy) ==
  objectiveStrategy.composition \notin {"centered", "balanced"}

\* quote: the enhanced quote; r: the outcome of Math.random() in the dynamic
\* branch
TextOverlayOf(width, height, objectiveStrategy, toneParams, quote, r) ==
  LET ctaStyle == objectiveStrategy.ctaStyle
      w == Num(width)
      h == Num(height)
      centered == objectiveStrategy.composition = "centered"
      balanced == objectiveStrategy.composition = "balanced"
      textX == IF centered THEN Mul(w, Rat(1, 10))
               ELSE IF balanced THEN Mul(w, Rat(55, 100))
               ELSE Mul(w, Rat(1, 10))
      textY == IF centered THEN Mul(h, Rat(85, 100))
               ELSE IF balanced THEN Mul(h, Rat(5, 10))
               ELSE Mul(h, Add(Rat(7, 10), Mul(r, Rat(2, 10))))
      textWidth == IF centered THEN Mul(w, Rat(8, 10))
                   ELSE IF balanced THEN Mul(w, Rat(4, 10))
                   ELSE Mul(w, Rat(8, 10))
      textHeight == IF centered THEN Mul(h, Rat(1, 10))
                    ELSE IF balanced THEN Mul(h, Rat(2, 10))
                    ELSE Mul(h, Rat(15, 100))
      style == IF ctaStyle \in DOMAIN TextStyles THEN TextStyles[ctaStyle]
               ELSE TextStyles.prominent
  IN  [ x |-> MathFloor(textX), y |-> MathFloor(textY),
        width |-> MathFloor(textWidth), height |-> MathFloor(textHeight),
        fontSize |-> style.fontSize, fontWeight |-> style.fontWeight,
        backgroundColor |-> style.backgroundColor, padding |-> style.padding,
        textColor |-> toneParams.colors.text[1], alignment |-> "center",
        quote |-> quote, text |-> quote ]

\* d: the draws of the call; the result is a Return of the overlay, or the
\* Throw of enhanceQuote
generateTextOverlay(width, height, objectiveStrategy, toneParams, platformOpts, tone, objective, assets, metadata, variation, d) ==
  LET quote0 == generateContextualQuote(tone, objective, assets, metadata,
                                        variation)
      quote == IF quote0.threw THEN Throw
               ELSE enhanceQuote(quote0.value, tone, d.gate, d.pick)
  IN  IF quote.threw THEN Throw
      ELSE Return(TextOverlayOf(width, height, objectiveStrategy, toneParams,
                                quote.value, d.ty))

\* a gradient attached whatever the format
generateGradientAnyFormat(toneParams, format) ==
  [ type |-> "linear", direction |-> "vertical",
    colors |-> << toneParams.colors.background[1],
                  toneParams.colors.background[2] >>,
    opacity |-> Rat(3, 10) ]

generateGradient(toneParams, format) ==
  IF format = "story"
    THEN [ type |-> "linear", direction |-> "vertical",
           colors |-> << toneParams.colors.background[1],
                         toneParams.colors.background[2] >>,
           opacity |-> Rat(3, 10) ]
    ELSE Null

generateBackgroundConfig(toneParams, objectiveStrategy, format) ==
  LET colors == toneParams.colors.background
      bgColor == IF objectiveStrategy.focus = "visual-impact" THEN colors[1]
                 ELSE IF objectiveStrategy.focus = "call-to-action"
                   THEN colors[2]
                 ELSE colors[3]
  IN  [ color |-> bgColor, gradient |-> generateGradient(toneParams, format),
        pattern |-> Null ]

generateVisualEffects(tone, objective, format) ==
  [ shadows |-> (tone = "premium" \/ tone = "bold"),
    borders |-> (tone = "playful"),
    overlays |-> (objective = "conversion"),
    blur |-> FALSE ]

calculateTextCoverage(objectiveStrategy) == objectiveStrategy.textSize

\* A call generateLayout({tone, objective, format, hasLogo, assets, metadata,
\* variation}) whose Math.random() calls and clock reading have the outcomes
\* d.
generateLayout(a, d) ==
  LET toneKind == KeyKind(TONE_PARAMETERS, a.tone)
      objectiveKind == KeyKind(OBJECTIVE_STRATEGIES, a.objective)
      formatKind == KeyKind(PLATFORM_OPTIMIZATIONS, a.format)
      toneParams == IF toneKind = "own" THEN TONE_PARAMETERS[a.tone]
                    ELSE TONE_PARAMETERS.neutral
      objectiveStrategy ==
        IF objectiveKind = "own" THEN OBJECTIVE_STRATEGIES[a.objective]
        ELSE IF objectiveKind = "inherited" THEN InheritedStrategy
        ELSE OBJECTIVE_STRATEGIES.awareness
      platformOpts == IF formatKind = "own" THEN PLATFORM_OPTIMIZATIONS[a.format]
                      ELSE PLATFORM_OPTIMIZATIONS.square
      width == platformOpts.dimensions.width
      height == platformOpts.dimensions.height
      dynamism == toneParams.composition.dynamism
      textOverlay ==
        generateTextOverlay(width, height, objectiveStrategy, toneParams,
                            platformOpts, a.tone, a.objective, a.assets,
                            a.metadata, a.variation, d)
  IN  IF formatKind = "inherited"
        THEN Throw   \* destructuring of platformOpts.dimensions, undefined
      ELSE IF toneKind = "inherited"
        THEN Throw   \* toneParams.composition is undefined
      ELSE IF textOverlay.threw
        THEN Throw
      ELSE Return(
        [ id |-> LayoutId(d.now, d.rnd),
          format |-> a.format,
          tone |-> a.tone,
          objective |-> a.objective,
          dimensions |-> [ width |-> width, height |-> height ],
          mainAsset |-> generateMainAssetPosition(width, height,
                          objectiveStrategy, platformOpts, dynamism,
                          d.jx, d.jy),
          logo |-> IF a.hasLogo
                     THEN generateLogoPosition(width, height, toneParams,
                                               platformOpts, d.logo)
                     ELSE Null,
          textOverlay |-> textOverlay.value,
          background |-> generateBackgroundConfig(toneParams,
                           objectiveStrategy, a.format),
          effects |-> generateVisualEffects(a.tone, a.objective, a.format),
          compliance |-> [ safeZone |-> platformOpts.safeZone,
                           textCoverage |->
                             calculateTextCoverage(objectiveStrategy),
                           contrastLevel |-> "high" ] ])

\* a test that rescales whenever the text covers anything
CoversAnything(textCoverage, textMaxCoverage) == Gt(textCoverage, Num(0))

\* textCoverage > platformRules.textMaxCoverage
ExceedsCoverage(textCoverage, textMaxCoverage) ==
  Gt(textCoverage, textMaxCoverage)

\* layout.textOverlay.width *= scale; layout.textOverlay.height *= scale
ScaleTextOverlay(textOverlay, scale) ==
  [textOverlay EXCEPT !.width = Mul(@, scale), !.height = Mul(@, scale)]

\* "Ensure safe zones": the mainAsset of layout after
\* layout.mainAsset.x = Math.max(safeZone, layout.mainAsset.x), and y alike
EnsureSafeZones(layout, safeZone) ==
  [layout.mainAsset EXCEPT !.x = MathMax(safeZone, @),
                           !.y = MathMax(safeZone, @)]

\* optimizeForPlatform(layout, platform): the descriptor it returns (the
\* object passed in, updated in place)
optimizeForPlatform(layout, platform) ==
  LET kind == KeyKind(PLATFORM_OPTIMIZATIONS, platform)
      platformRules ==
        IF kind = "own"
          THEN [ safeZone |-> PLATFORM_OPTIMIZATIONS[platform].safeZone,
                 textMaxCoverage |->
                   PLATFORM_OPTIMIZATIONS[platform].textMaxCoverage ]
        ELSE IF kind = "inherited" THEN InheritedRules
        ELSE [ safeZone |-> PLATFORM_OPTIMIZATIONS.square.safeZone,
               textMaxCoverage |->
                 PLATFORM_OPTIMIZATIONS.square.textMaxCoverage ]
      t == layout.textOverlay
      textCoverage ==
        Div(Mul(t.width, t.height),
            Mul(Num(layout.dimensions.width), Num(layout.dimensions.height)))
      scale == Div(platformRules.textMaxCoverage, textCoverage)
      text1 == IF t # Null /\ ExceedsCoverage(textCoverage,
                                               platformRules.textMaxCoverage)
                 THEN ScaleTextOverlay(t, scale)
                 ELSE t
      m == layout.mainAsset
      main1 == IF m # Null
                 THEN EnsureSafeZones(layout, platformRules.safeZone)
                 ELSE m
  IN  [layout EXCEPT !.textOverlay = text1, !.mainAsset = main1]

\* ------------------------------------------------------------------------
\* Inputs
\* ------------------------------------------------------------------------
\* the recognized values, one unrecognized string, and one string that names
\* a property inherited from Object.prototype
ToneInputs == {"neutral", "bold", "playful", "premium", "retro", "constructor"}
ObjectiveInputs == {"awareness", "conversion", "sales", "engagement",
                    "constructor"}
FormatInputs == {"square", "story", "banner", "portrait", "constructor"}

EmptyMetadata == [description |-> <<>>, title |-> <<>>, tags |-> <<>>]

\* asset lists: "hat.png" (no keyword) and "SmartCam" (keyword smart)
AssetLists ==
  { << [name |-> <<"h", "a", "t", ".", "p", "n", "g">>] >>,
    << [name |-> <<"S", "m", "a", "r", "t", "C", "a", "m">>] >> }

\* outcomes <<dx, dy>> of the two draws (Math.random() - 0.5) * 50, numbers
\* of [-25, 25)
OffsetDraws == { <<Num(0 - 25), Num(24)>>, <<Num(24), Num(0 - 25)>> }

NoDraws == [jx |-> Num(0), jy |-> Num(0), logo |-> 0, gate |-> FALSE,
            pick |-> 0, ty |-> Num(0), now |-> 0, rnd |-> RandomStrings[1]]

\* every outcome of the Math.random() calls of the layout; the clock reading
\* and the id string are one outcome here and vary in IdSchedules
AllDraws ==
  [jx : JitterDraws, jy : JitterDraws, logo : LogoDraws, gate : BOOLEAN,
   pick : PickDraws, ty : TextDraws, now : {NoDraws.now},
   rnd : {NoDraws.rnd}]

\* the outcomes sampled inside the loop of generateLayoutVariants, where
\* every variant of the array multiplies the outcomes: both logo anchors and
\* both outcomes of the emoji test, with the lowest outcome of the other draws
LoopDraws ==
  { d \in AllDraws :
      /\ d.jx = NoDraws.jx /\ d.jy = NoDraws.jy
      /\ d.pick = NoDraws.pick
      /\ d.ty = NoDraws.ty }

\* the strategy generateLayout resolves for objective
StrategyOf(objective) ==
  LET kind == KeyKind(OBJECTIVE_STRATEGIES, objective)
  IN  IF kind = "own" THEN OBJECTIVE_STRATEGIES[objective]
      ELSE IF kind = "inherited" THEN InheritedStrategy
      ELSE OBJECTIVE_STRATEGIES.awareness

\* the outcomes, among D, of the Math.random() calls that generateLayout(a)
\* makes
DrawsOf(a, D) ==
  LET strategy == StrategyOf(a.objective)
      quote == generateContextualQuote(a.tone, a.objective, a.assets,
                                       a.metadata, a.variation)
      jitter == strategy.composition
                  \notin {"centered", "balanced", "product-focused"}
      enhance == ~quote.threw /\ EnhanceDraws(quote.value, a.tone)
  IN  { d \in D :
          /\ jitter \/ (d.jx = NoDraws.jx /\ d.jy = NoDraws.jy)
          /\ a.hasLogo \/ d.logo = NoDraws.logo
          /\ enhance \/ d.gate = NoDraws.gate
          /\ (enhance /\ d.gate) \/ d.pick = NoDraws.pick
          /\ TextDrawn(strategy) \/ d.ty = NoDraws.ty }

\* descriptors handed to optimizeForPlatform by a caller other than the
\* engine: only the fields the function reads
CanvasInputs == { [width |-> 10, height |-> 10],
                  [width |-> 1080, height |-> 1080],
                  [width |-> 1080, height |-> 1920] }
TextSizeInputs == {Num(0 - 4), Num(0), Num(3), Rat(21, 2), Num(1080)}
OriginInputs == {Num(0 - 5), Num(35), Num(50), Num(2000)}

DescriptorInputs ==
  { [dimensions |-> c, textOverlay |-> t, mainAsset |-> m] :
      c \in CanvasInputs,
      t \in {Null} \cup
            { [x |-> Num(1), y |-> Num(2), width |-> w, height |-> h] :
                w \in TextSizeInputs, h \in TextSizeInputs },
      m \in {Null} \cup
            { [x |-> x, y |-> y, width |-> Num(5), height |-> Num(5)] :
                x \in OriginInputs, y \in OriginInputs } }

\* ------------------------------------------------------------------------
\* State
\* ------------------------------------------------------------------------
VARIABLES
  pc,         \* "idle", or the position of the call in progress
  args,       \* the arguments of the call in progress
  i,          \* generateLayoutVariants: the loop variable
  variants,   \* generateLayoutVariants: the array variants
  draws,      \* the Math.random() outcomes of the latest generateLayout call
  generated,  \* the result of a direct generateLayout call
  quotes,     \* the result of generateQuoteVariations
  response,   \* the response of POST /api/generate-quotes
  layout,     \* the descriptor object passed to optimizeForPlatform
  snapshots,  \* the values of that object before and after each application
  ui,         \* AICreativeBuilder: the state of the component
  canvasLoaded,  \* server: the flag canvasLoaded
  rendered,   \* the latest outcome of POST /api/render-variant
  uploadsDir, \* server: the files of the uploads directory
  createCanvas,  \* server: TRUE when the variable createCanvas is set
  loadImage,  \* server: TRUE when the variable loadImage is set
  inflight    \* server: the request of each client, and where it stands

vars == <<pc, args, i, variants, draws, generated, quotes, response, layout, snapshots, ui, canvasLoaded, rendered, uploadsDir, createCanvas, loadImage, inflight>>

\* the variables of the component and of the render handler
appVars == <<ui, canvasLoaded, rendered, uploadsDir, createCanvas, loadImage, inflight>>

\* the clients whose requests the server may be handling at the same time
Clients == {1, 2}

\* no request of the client is being handled
NoRequest == [at |-> "none"]

\* the variables that loadCanvas writes
canvasVars == <<canvasLoaded, createCanvas, loadImage>>

\* the variables of the engine calls
engineVars == <<i, variants, draws, generated, quotes, layout, snapshots>>

\* useState(...) of AICreativeBuilder
InitialUi ==
  [ assets |-> <<>>, bgRemove |-> FALSE, tone |-> "neutral",
    objective |-> "awareness", format |-> "square", variants |-> <<>>,
    currentQuote |-> NullQuote ]

NoArgs == [none |-> TRUE]

Init ==
  /\ pc = "idle"
  /\ args = NoArgs
  /\ i = 0
  /\ variants = <<>>
  /\ draws = NoDraws
  /\ generated = Null
  /\ quotes = Null
  /\ response = Null
  /\ layout = Null
  /\ snapshots = <<>>
  /\ ui = InitialUi
  /\ canvasLoaded = FALSE
  /\ rendered = Null
  /\ uploadsDir = [next |-> 1, files |-> {}]
  /\ createCanvas = FALSE
  /\ loadImage = FALSE
  /\ inflight = [c \in Clients |-> NoRequest]

\* ------------------------------------------------------------------------
\* generateLayout, called directly
\* ------------------------------------------------------------------------
\* variation is index / count for the pairs index < count <= MaxVariation
CallGenerateLayout ==
  /\ pc = "idle"
  /\ \E tone \in ToneInputs, objective \in ObjectiveInputs,
        format \in FormatInputs, hasLogo \in BOOLEAN, assets \in AssetLists,
        count \in 1 .. MaxVariation :
       \E index \in 0 .. (count - 1) :
         LET a == [fn |-> "generateLayout", tone |-> tone,
                   objective |-> objective, format |-> format,
                   hasLogo |-> hasLogo, assets |-> assets,
                   metadata |-> EmptyMetadata, index |-> index,
                   count |-> count, variation |-> Rat(index, count)]
         IN  \E d \in DrawsOf(a, AllDraws) :
               /\ args' = a
               /\ draws' = d
               /\ generated' = generateLayout(a, d)
  /\ pc' = "layout"
  /\ UNCHANGED <<i, variants, quotes, response, layout, snapshots>>
  /\ UNCHANGED appVars

\* ------------------------------------------------------------------------
\* generateLayoutVariants
\* ------------------------------------------------------------------------
\* the call: variants = [], i = 0; with count <= 0 the loop body never runs
\* and the empty array is returned
CallGenerateLayoutVariants ==
  /\ pc = "idle"
  /\ \E tone \in ToneInputs, objective \in ObjectiveInputs,
        format \in FormatInputs, hasLogo \in BOOLEAN, assets \in AssetLists,
        count \in (0 - 1) .. MaxVariants :
       /\ args' = [fn |-> "generateLayoutVariants", tone |-> tone,
                   objective |-> objective, format |-> format,
                   hasLogo |-> hasLogo, assets |-> assets,
                   metadata |-> EmptyMetadata, count |-> count]
       /\ pc' = IF 0 < count THEN "loop" ELSE "returned"
  /\ i' = 0
  /\ variants' = <<>>
  /\ UNCHANGED <<draws, generated, quotes, response, layout, snapshots>>
  /\ UNCHANGED appVars

\* the arguments of the generateLayout call of iteration k
VariationArgs(a, k) ==
  [tone |-> a.tone, objective |-> a.objective, format |-> a.format,
   hasLogo |-> a.hasLogo, assets |-> a.assets, metadata |-> a.metadata,
   variation |-> Rat(k, a.count)]

\* layout.mainAsset.x += dx; layout.mainAsset.y += dy
Diversify(l, dx, dy) ==
  [l EXCEPT !.mainAsset.x = Add(@, dx), !.mainAsset.y = Add(@, dy)]

\* one iteration of the loop: generateLayout, the offset for i > 0, push;
\* a throw of generateLayout ends the call
VariantIteration ==
  /\ pc = "loop"
  /\ i < args.count
  /\ \E d \in DrawsOf(VariationArgs(args, i), LoopDraws),
        o \in (IF i > 0 THEN OffsetDraws ELSE {<<Num(0), Num(0)>>}) :
       LET r == generateLayout(VariationArgs(args, i), d)
           dx == o[1]
           dy == o[2]
       IN  /\ draws' = d
           /\ IF r.threw
                THEN /\ pc' = "threw"
                     /\ UNCHANGED <<i, variants>>
                ELSE /\ variants' =
                          Append(variants,
                                 IF i > 0 THEN Diversify(r.value, dx, dy)
                                 ELSE r.value)
                     /\ i' = i + 1
                     /\ pc' = IF i + 1 < args.count THEN "loop" ELSE "returned"
  /\ UNCHANGED <<args, generated, quotes, response, layout, snapshots>>
  /\ UNCHANGED appVars

\* /api/generate-variants: generatedLayouts.map(genLayout =>
\* optimizeForPlatform(genLayout, format || 'square'))
OptimizeVariants ==
  /\ pc = "returned"
  /\ variants' = [k \in 1 .. Len(variants) |->
                    optimizeForPlatform(variants[k], args.format)]
  /\ pc' = "optimized"
  /\ UNCHANGED <<args, i, draws, generated, quotes, response, layout, snapshots>>
  /\ UNCHANGED appVars

\* ------------------------------------------------------------------------
\* generateQuoteVariations and POST /api/generate-quotes
\* ------------------------------------------------------------------------
CallGenerateQuoteVariations ==
  /\ pc = "idle"
  /\ \E tone \in ToneInputs, objective \in ObjectiveInputs,
        isAIThemed \in BOOLEAN, count \in (0 - 1) .. MaxCount :
       /\ args' = [fn |-> "generateQuoteVariations", tone |-> tone,
                   objective |-> objective, isAIThemed |-> isAIThemed,
                   count |-> count]
       /\ quotes' = generateQuoteVariations(tone, objective, isAIThemed, count)
  /\ pc' = "quotes"
  /\ UNCHANGED <<i, variants, draws, generated, response, layout, snapshots>>
  /\ UNCHANGED appVars

\* value || fallback, "" standing for a field that is omitted or empty
OrDefault(value, fallback) == IF value = "" THEN fallback ELSE value

\* the assets and metadata that a quotes request carries: none, or an asset
\* name and a title with an AI keyword
QuoteRequestContents ==
  { [assets |-> <<>>, metadata |-> EmptyMetadata],
    [assets |-> << [name |-> <<"S", "m", "a", "r", "t", "C", "a", "m">>] >>,
     metadata |-> [EmptyMetadata EXCEPT
                     !.title = <<"A", "I", " ", "K", "i", "t">>]] }

\* the request body: tone and objective as sent ("" when omitted), count
\* present or omitted (the default of the destructuring is 5), assets and
\* metadata, which the handler reads and does not use
PostGenerateQuotes ==
  /\ pc = "idle"
  /\ \E tone \in ToneInputs \cup {""}, objective \in ObjectiveInputs \cup {""},
        hasCount \in BOOLEAN, bodyCount \in (0 - 1) .. (MaxCount + 1),
        contents \in QuoteRequestContents :
       LET count == IF hasCount THEN bodyCount ELSE 5
           r == generateQuoteVariations(OrDefault(tone, "neutral"),
                                        OrDefault(objective, "awareness"),
                                        FALSE,
                                        IF count < 10 THEN count ELSE 10)
       IN  /\ hasCount \/ bodyCount = 0
           /\ args' = [fn |-> "POST /api/generate-quotes", tone |-> tone,
                       objective |-> objective, hasCount |-> hasCount,
                       count |-> bodyCount, assets |-> contents.assets,
                       metadata |-> contents.metadata]
           /\ response' =
                IF r.threw THEN [status |-> 500]
                ELSE [status |-> 200, quotes |-> r.value,
                      tone |-> OrDefault(tone, "neutral"),
                      objective |-> OrDefault(objective, "awareness"),
                      count |-> Len(r.value)]
  /\ pc' = "responded"
  /\ UNCHANGED <<i, variants, draws, generated, quotes, layout, snapshots>>
  /\ UNCHANGED appVars

\* ------------------------------------------------------------------------
\* optimizeForPlatform on a descriptor of the caller
\* ------------------------------------------------------------------------
CallOptimizeForPlatform ==
  /\ pc = "idle"
  /\ \E l \in DescriptorInputs, platform \in FormatInputs :
       /\ args' = [fn |-> "optimizeForPlatform", platform |-> platform]
       /\ layout' = optimizeForPlatform(l, platform)
       /\ snapshots' = <<l, optimizeForPlatform(l, platform)>>
  /\ pc' = "normalized"
  /\ UNCHANGED <<i, variants, draws, generated, quotes, response>>
  /\ UNCHANGED appVars

\* a second application to the object the first one returned
OptimizeAgain ==
  /\ pc = "normalized"
  /\ Len(snapshots) = 2
  /\ layout' = optimizeForPlatform(layout, args.platform)
  /\ snapshots' = Append(snapshots, optimizeForPlatform(layout, args.platform))
  /\ UNCHANGED <<pc, args, i, variants, draws, generated, quotes, response>>
  /\ UNCHANGED appVars

\* ------------------------------------------------------------------------
\* generateLayoutVariants as one call, and POST /api/generate-variants
\* ------------------------------------------------------------------------
\* count: 6 of the handler
RequestedVariants == 6

\* A schedule gives, for every iteration of the loop of
\* generateLayoutVariants, the outcomes of the draws and of the clock reading
\* of generateLayout (draws) and of the two offset draws (offsets).

\* true when generateLayout(a) reaches the Math.random() > 0.5 test of
\* enhanceQuote
Enhances(a) ==
  LET quote == generateContextualQuote(a.tone, a.objective, a.assets,
                                       a.metadata, a.variation)
  IN  ~quote.threw /\ EnhanceDraws(quote.value, a.tone)

\* Enhances for the iterations k .. a.count - 1, in order
RECURSIVE EnhancesFrom(_, _)
EnhancesFrom(a, k) ==
  IF k >= a.count THEN <<>>
  ELSE <<Enhances(VariationArgs(a, k))>> \o EnhancesFrom(a, k + 1)

\* the clock readings and id strings of the iterations: all in one
\* millisecond with different strings; in two milliseconds with strings that
\* repeat; in one millisecond with two strings that agree on their first nine
\* digits
IdSchedules ==
  { [k \in 1 .. RequestedVariants |->
       [now |-> 0, rnd |-> RandomStrings[k + 1]]],
    [k \in 1 .. RequestedVariants |->
       [now |-> (k - 1) \div 3, rnd |-> RandomStrings[3 + ((k - 1) % 3)]]],
    [k \in 1 .. RequestedVariants |->
       [now |-> 0, rnd |-> RandomStrings[k]]] }

\* the schedules sampled for the call a: one logo corner, one outcome of the
\* emoji test and one offset for all iterations, each iteration making only
\* the draws its arguments lead to
Schedules(a) ==
  UNION { { [ draws |->
                [k \in 1 .. a.count |->
                   [NoDraws EXCEPT
                      !.logo = IF a.hasLogo THEN logo ELSE @,
                      !.gate = IF enhances[k] THEN gate ELSE @,
                      !.now = ids[k].now,
                      !.rnd = ids[k].rnd]],
              offsets |-> [k \in 1 .. a.count |-> o] ] :
              logo \in LogoDraws, gate \in BOOLEAN, ids \in IdSchedules,
              o \in OffsetDraws } :
          enhances \in {EnhancesFrom(a, 0)} }

\* the loop from iteration k on; pushed holds the descriptors pushed so far
RECURSIVE VariantsLoop(_, _, _, _)
VariantsLoop(a, schedule, k, pushed) ==
  IF k >= a.count THEN Return(pushed)
  ELSE CHOOSE result \in
         { IF r.threw THEN Throw
           ELSE VariantsLoop(a, schedule, k + 1,
                  Append(pushed, IF k > 0 THEN Diversify(r.value, o[1], o[2])
                                 ELSE r.value)) :
             r \in {generateLayout(VariationArgs(a, k), schedule.draws[k + 1])},
             o \in {schedule.offsets[k + 1]} } : TRUE

generateLayoutVariants(a, schedule) == VariantsLoop(a, schedule, 0, <<>>)

\* getLayoutDescription: the table of descriptions
LayoutDescriptions ==
  [ awareness |->
      [ neutral |-> <<"Clean, balanced composition optimized for brand awareness and recognition">>,
        bold |-> <<"High-impact design with strong visual presence for maximum awareness">>,
        playful |-> <<"Engaging, vibrant layout designed to capture attention and build brand recall">>,
        premium |-> <<"Sophisticated, elegant design that elevates brand perception">> ],
    conversion |->
      [ neutral |-> <<"Conversion-focused layout with clear call-to-action and balanced visual hierarchy">>,
        bold |-> <<"Dynamic design with prominent CTA optimized for click-through rates">>,
        playful |-> <<"Engaging layout that guides users toward conversion with friendly, approachable design">>,
        premium |-> <<"Refined design that builds trust and encourages premium conversions">> ],
    sales |->
      [ neutral |-> <<"Product-focused layout highlighting key features and value proposition">>,
        bold |-> <<"Urgent, action-oriented design optimized for immediate sales conversion">>,
        playful |-> <<"Exciting, energetic layout that creates urgency and drives sales">>,
        premium |-> <<"Luxury-focused design that emphasizes quality and exclusivity">> ] ]

\* descriptions[objective]?.[tone] || `AI-optimized ${tone} layout for
\* ${objective} on ${format} format`; the value found under an inherited
\* tone key is a function, returned as it is
getLayoutDescription(l) ==
  IF l.objective \in DOMAIN LayoutDescriptions
    THEN IF l.tone \in DOMAIN LayoutDescriptions[l.objective]
           THEN LayoutDescriptions[l.objective][l.tone]
         ELSE IF l.tone \in ObjectPrototypeKeys
           THEN <<"function">>
         ELSE <<"AI-optimized ", l.tone, " layout for ", l.objective, " on ",
                l.format, " format">>
  ELSE <<"AI-optimized ", l.tone, " layout for ", l.objective, " on ",
         l.format, " format">>

\* value || fallback for a number: the fallback replaces 0 and NaN
NumberOr(value, fallback) ==
  IF IsNaN(value) \/ value = Num(0) THEN fallback ELSE value

\* the element of index k (from 0) of generatedLayouts.map(...), given the
\* descriptor that optimizeForPlatform returned
VariantOfOptimized(optimizedLayout, k, assets) ==
  LET width == Num(optimizedLayout.dimensions.width)
      height == Num(optimizedLayout.dimensions.height)
  IN  [ id |-> optimizedLayout.id,
        layout |-> k,
        template |-> "generative",
        templateConfig |->
          [ mainX |-> Div(optimizedLayout.mainAsset.x, width),
            mainY |-> Div(optimizedLayout.mainAsset.y, height),
            mainWidth |-> Div(optimizedLayout.mainAsset.width, width),
            textX |-> NumberOr(Div(optimizedLayout.textOverlay.x, width),
                               Rat(1, 10)),
            textY |-> NumberOr(Div(optimizedLayout.textOverlay.y, height),
                               Rat(85, 100)) ],
        generativeLayout |-> optimizedLayout,
        mainAsset |-> assets[1],
        tone |-> optimizedLayout.tone,
        objective |-> optimizedLayout.objective,
        format |-> optimizedLayout.format,
        description |-> getLayoutDescription(optimizedLayout) ]

VariantOf(genLayout, k, assets, format) ==
  CHOOSE variant \in
    { VariantOfOptimized(optimizedLayout, k, assets) :
        optimizedLayout \in {optimizeForPlatform(genLayout, format)} } : TRUE

\* generatedLayouts.map(...) from index k on
RECURSIVE VariantsFrom(_, _, _, _)
VariantsFrom(generatedLayouts, k, assets, format) ==
  IF k >= Len(generatedLayouts) THEN <<>>
  ELSE <<VariantOf(generatedLayouts[k + 1], k, assets, format)>>
         \o VariantsFrom(generatedLayouts, k + 1, assets, format)

\* the arguments the handler passes to generateLayoutVariants for a request
\* body with a non-empty assets array
VariantsCall(body) ==
  [tone |-> OrDefault(body.tone, "neutral"),
   objective |-> OrDefault(body.objective, "awareness"),
   format |-> OrDefault(body.format, "square"),
   hasLogo |-> Len(body.assets) > 1,
   count |-> RequestedVariants,
   assets |-> body.assets,
   metadata |-> EmptyMetadata]

\* !assets || assets.length === 0; a body without the field assets has
\* hasAssets = FALSE
NoAssets(body) == ~body.hasAssets \/ Len(body.assets) = 0

\* the response of the handler to body under schedule: 400 without assets,
\* 500 when generateLayoutVariants throws, else the six variants
GenerateVariantsResponse(body, schedule) ==
  IF NoAssets(body)
    THEN [status |-> 400, error |-> "No assets provided", variants |-> <<>>]
  ELSE CHOOSE result \in
         { IF generatedLayouts.threw
             THEN [status |-> 500, error |-> "TypeError", variants |-> <<>>]
           ELSE [status |-> 200, error |-> "",
                 variants |->
                   VariantsFrom(generatedLayouts.value, 0, body.assets,
                                OrDefault(body.format, "square"))] :
             generatedLayouts \in
               {generateLayoutVariants(VariantsCall(body), schedule)} } : TRUE

\* the assets arrays of the requests: empty, one asset, two assets
RequestAssets ==
  {<<>>} \cup AssetLists \cup
  { << [name |-> <<"h", "a", "t", ".", "p", "n", "g">>],
       [name |-> <<"l", "o", "g", "o", ".", "p", "n", "g">>] >> }

\* the schedules of a request: one (unused) for a request without assets
RequestSchedules(body) ==
  IF NoAssets(body)
    THEN {[draws |-> <<>>, offsets |-> <<>>]}
    ELSE Schedules(VariantsCall(body))

\* POST /api/generate-variants with any body
PostGenerateVariants ==
  /\ pc = "idle"
  /\ \E tone \in ToneInputs \cup {""}, objective \in ObjectiveInputs \cup {""},
        format \in FormatInputs \cup {""}, hasAssets \in BOOLEAN,
        assets \in RequestAssets :
       LET body == [fn |-> "POST /api/generate-variants", tone |-> tone,
                    objective |-> objective, format |-> format,
                    hasAssets |-> hasAssets, assets |-> assets]
       IN  \E schedule \in RequestSchedules(body) :
             /\ hasAssets \/ assets = <<>>
             /\ args' = body
             /\ \E r \in {GenerateVariantsResponse(body, schedule)} :
                  response' = r
  /\ pc' = "variants-responded"
  /\ UNCHANGED engineVars
  /\ UNCHANGED appVars

\* ------------------------------------------------------------------------
\* POST /api/render-variant
\* ------------------------------------------------------------------------
\* a string value that `||` and `if` take as present
Truthy(quote) == quote # UndefinedQuote /\ quote # <<>>

\* the objective-based text used when the variant carries none
ObjectiveText(objective) ==
  IF objective = "conversion" THEN <<"Shop Now ", "U+2192">>
  ELSE IF objective = "sales"
    THEN <<"U+20B9", "999 ", "U+2022", " Limited Offer">>
  ELSE <<"New Arrival">>

\* a text that is chosen again from the tone and objective of the request
CanvasTextFromControls(genLayout, tone, objective) ==
  generateQuote(tone, objective, FALSE, Num(0)).value

\* the text drawn on the canvas path
CanvasText(genLayout, tone, objective) ==
  IF genLayout # Null /\ genLayout.textOverlay # Null
       /\ Truthy(genLayout.textOverlay.quote)
    THEN genLayout.textOverlay.quote
  ELSE IF genLayout # Null /\ genLayout.textOverlay # Null
            /\ Truthy(genLayout.textOverlay.text)
    THEN genLayout.textOverlay.text
  ELSE ObjectiveText(objective)

\* the text of the SVG layer of renderVariantWithSharp
SharpText(genLayout, objective) ==
  IF genLayout # Null /\ genLayout.textOverlay # Null
    THEN IF Truthy(genLayout.textOverlay.quote)
           THEN genLayout.textOverlay.quote
         ELSE IF Truthy(genLayout.textOverlay.text)
           THEN genLayout.textOverlay.text
         ELSE <<"New Arrival">>
  ELSE ObjectiveText(objective)

\* tone === 'bold' ? '#0f172a' : tone === 'premium' ? '#111827' : '#ffffff'
ToneBackground(tone) ==
  IF tone = "bold" THEN "#0f172a"
  ELSE IF tone = "premium" THEN "#111827"
  ELSE "#ffffff"

\* the width and height of the image
RenderSize(genLayout, format) ==
  IF genLayout # Null
    THEN genLayout.dimensions
  ELSE IF format = "square" THEN [width |-> 800, height |-> 800]
  ELSE IF format = "story" THEN [width |-> 1080, height |-> 1920]
  ELSE [width |-> 1200, height |-> 628]

\* the rectangle of the logo on the canvas path: the logo of the generative
\* layout when there is one, else 140 wide at (30, 30); the aspect ratio of
\* the image can only make the drawn width or height smaller
LogoDrawn(genLayout) ==
  IF genLayout # Null /\ genLayout.logo # Null
    THEN [ x |-> genLayout.logo.x, y |-> genLayout.logo.y,
           width |-> genLayout.logo.width, height |-> genLayout.logo.height ]
  ELSE [ x |-> Num(30), y |-> Num(30), width |-> Num(140),
         height |-> Num(50) ]

\* Brand guideline thresholds of runComplianceChecks
MIN_SAFE_ZONE == Num(40)

\* runComplianceChecks(canvas, assets, format): the types of the violations
\* that do not depend on the pixels of the image (low-contrast and
\* text-readability do; every platform check has passed: true)
runComplianceChecks(assets, format) ==
  LET logoRect == [x |-> Num(30), y |-> Num(30), w |-> Num(140),
                   h |-> Num(50)]
  IN  IF Len(assets) > 1
           /\ (Lt(logoRect.x, MIN_SAFE_ZONE) \/ Lt(logoRect.y, MIN_SAFE_ZONE))
        THEN {"logo-safe-zone"}
      ELSE {}

\* the handler for the body [variant, assets, bgRemove, tone, objective,
\* format]; useCanvas: createCanvas && loadImage after loadCanvas(); files:
\* the files of the uploads directory.  A main asset that cannot be loaded
\* ends the request in the catch; a logo that cannot be loaded is skipped.
\* The outcome records what the image shows of the variant.
RenderVariant(body, useCanvas, files) ==
  IF Len(body.assets) = 0
    THEN [status |-> 400, error |-> "Missing required data"]
  ELSE IF body.variant.mainAsset.src \notin files
    THEN [status |-> 500, error |-> "ENOENT"]
  ELSE LET genLayout == body.variant.generativeLayout
           size == RenderSize(genLayout, body.format)
       IN  [ status |-> 200,
             path |-> IF useCanvas THEN "canvas" ELSE "sharp",
             layout |-> body.variant.layout,
             width |-> size.width,
             height |-> size.height,
             background |->
               IF useCanvas /\ genLayout # Null
                 THEN genLayout.background.color
               ELSE ToneBackground(body.tone),
             logo |->
               IF Len(body.assets) > 1 /\ body.assets[2].src \in files
                 THEN IF useCanvas THEN LogoDrawn(genLayout)
                      ELSE LogoDrawn(Null)
               ELSE Null,
             text |-> IF useCanvas
                        THEN CanvasText(genLayout, body.tone, body.objective)
                      ELSE SharpText(genLayout, body.objective),
             violations |->
               IF useCanvas
                 THEN runComplianceChecks(body.assets, body.format)
               ELSE {} ]

\* ------------------------------------------------------------------------
\* AICreativeBuilder: the component
\* ------------------------------------------------------------------------
\* largest number of files that the component uploads
MaxAssets == 1

\* the values of the selects and buttons that the user is taken to choose
UiTones == {"neutral", "playful"}
UiObjectives == {"awareness", "sales"}
UiFormats == {"square"}

\* the entry that POST /api/upload returns for the n-th file stored: the
\* stored file name is new with every upload, and so is the id
UploadedFile(n) ==
  [id |-> n, name |-> <<"h", "a", "t", ".", "p", "n", "g">>, src |-> n]

\* the schedules sampled for a request of the component: the first corner,
\* offset and id schedule, both outcomes of the emoji test
UiSchedules(a) ==
  UNION { { [ draws |->
                [k \in 1 .. a.count |->
                   [NoDraws EXCEPT !.gate = IF enhances[k] THEN gate ELSE @,
                                   !.rnd = RandomStrings[k + 1]]],
              offsets |-> [k \in 1 .. a.count |-> <<Num(0 - 25), Num(24)>>] ] :
              gate \in IF \E k \in 1 .. a.count : enhances[k]
                         THEN BOOLEAN ELSE {FALSE} } :
          enhances \in {EnhancesFrom(a, 0)} }

\* variant.generativeLayout?.textOverlay?.quote, else ...?.text, else null
QuoteOfVariant(variant) ==
  IF Truthy(variant.generativeLayout.textOverlay.quote)
    THEN variant.generativeLayout.textOverlay.quote
  ELSE IF Truthy(variant.generativeLayout.textOverlay.text)
    THEN variant.generativeLayout.textOverlay.text
  ELSE NullQuote

\* renderVariantToCanvas(variant) in the component state u: the request is
\* made of the state, loadCanvas() sets the flag when the import succeeds
\* (imported), and the quote shown follows a successful response
RenderToCanvas(variant, u, imported) ==
  LET body == [variant |-> variant, assets |-> u.assets,
               bgRemove |-> u.bgRemove, tone |-> u.tone,
               objective |-> u.objective, format |-> u.format]
      loaded == canvasLoaded \/ imported
      outcome == RenderVariant(body, loaded, uploadsDir.files)
  IN  /\ canvasLoaded' = loaded
      /\ createCanvas' = loaded
      /\ loadImage' = loaded
      /\ rendered' = outcome
      /\ ui' = IF outcome.status = 200
                 THEN [u EXCEPT !.currentQuote = QuoteOfVariant(variant)]
               ELSE u

\* handleFiles: [...uploadedFiles, ...prev]
UiUpload ==
  /\ uploadsDir.next <= MaxAssets
  /\ ui' = [ui EXCEPT !.assets = <<UploadedFile(uploadsDir.next)>> \o @]
  /\ uploadsDir' = [next |-> uploadsDir.next + 1,
                    files |-> uploadsDir.files \cup {uploadsDir.next}]
  /\ pc' = "idle"
  /\ UNCHANGED <<args, response, rendered, inflight>>
  /\ UNCHANGED canvasVars
  /\ UNCHANGED engineVars

\* prev.filter(a => a.id !== asset.id)
WithoutAsset(assets, id) == SelectSeq(assets, LAMBDA a : a.id # id)

\* removeAsset(asset) for the asset at position k: DELETE
\* /api/assets/:filename unlinks the file (unlinked) or fails, and the
\* asset leaves the list in both cases
UiDeleteAsset ==
  /\ \E k \in 1 .. Len(ui.assets), unlinked \in BOOLEAN :
       /\ ui' = [ui EXCEPT !.assets = WithoutAsset(@, ui.assets[k].id)]
       /\ uploadsDir' =
            IF unlinked
              THEN [uploadsDir EXCEPT !.files = @ \ {ui.assets[k].src}]
            ELSE uploadsDir
  /\ pc' = "idle"
  /\ UNCHANGED <<args, response, rendered, inflight>>
  /\ UNCHANGED canvasVars
  /\ UNCHANGED engineVars

\* generateVariants: the request, setVariants, and the render of the first
\* variant
UiGenerateVariants ==
  /\ Len(ui.assets) > 0
  /\ LET body == [fn |-> "POST /api/generate-variants", tone |-> ui.tone,
                  objective |-> ui.objective, format |-> ui.format,
                  hasAssets |-> TRUE, assets |-> ui.assets]
     IN  \E schedule \in UiSchedules(VariantsCall(body)) :
           \E r \in {GenerateVariantsResponse(body, schedule)} :
             /\ args' = body
             /\ response' = r
             /\ IF r.status = 200
                  THEN \E imported \in BOOLEAN :
                         /\ imported => ~canvasLoaded
                         /\ RenderToCanvas(
                              r.variants[1],
                              [ui EXCEPT !.variants = r.variants],
                              imported)
                  ELSE UNCHANGED <<ui, rendered, canvasVars>>
  /\ pc' = "generated"
  /\ UNCHANGED <<uploadsDir, inflight>>
  /\ UNCHANGED engineVars

\* a click on the button of variant k
UiSelectVariant ==
  /\ \E k \in 1 .. Len(ui.variants), imported \in BOOLEAN :
       /\ imported => ~canvasLoaded
       /\ RenderToCanvas(ui.variants[k], ui, imported)
  /\ pc' = "idle"
  /\ UNCHANGED <<args, response, uploadsDir, inflight>>
  /\ UNCHANGED engineVars

\* a change of one select, and the effect "Re-render when controls change"
\* (the checkbox bgRemove, which no modelled outcome depends on, stays as it
\* starts)
UiChangeControl ==
  /\ \E tone \in UiTones, objective \in UiObjectives, format \in UiFormats,
        imported \in BOOLEAN :
       LET u == [ui EXCEPT !.tone = tone, !.objective = objective,
                           !.format = format]
           changed == {c \in {"tone", "objective", "format"} : u[c] # ui[c]}
       IN  /\ Cardinality(changed) = 1
           /\ imported => ~canvasLoaded
           /\ IF Len(ui.variants) > 0
                THEN RenderToCanvas(ui.variants[1], u, imported)
                ELSE /\ ~imported
                     /\ ui' = u
                     /\ UNCHANGED <<rendered, canvasVars>>
  /\ pc' = "idle"
  /\ UNCHANGED <<args, response, uploadsDir, inflight>>
  /\ UNCHANGED engineVars

\* ------------------------------------------------------------------------
\* generateLayout with asset names and metadata that may name an AI keyword
\* ------------------------------------------------------------------------
\* the tones and objectives that key the quote banks
BankTones == DOMAIN QUOTE_TEMPLATES
BankObjectives == DOMAIN QUOTE_TEMPLATES.neutral

\* asset lists: no keyword; "SmartCam" (smart, in capitals); "machine" and
\* "learning" (a keyword only in the joined text); two names without keyword
ThemeAssets ==
  { << [name |-> <<"h", "a", "t", ".", "p", "n", "g">>] >>,
    << [name |-> <<"S", "m", "a", "r", "t", "C", "a", "m">>] >>,
    << [name |-> <<"m", "a", "c", "h", "i", "n", "e">>],
       [name |-> <<"l", "e", "a", "r", "n", "i", "n", "g">>] >>,
    << [name |-> <<"h", "a", "t", ".", "p", "n", "g">>],
       [name |-> <<"l", "o", "g", "o", ".", "p", "n", "g">>] >> }

\* metadata: empty; title "AI Kit"; tags "neural"; description "summer sale"
ThemeMetadata ==
  { EmptyMetadata,
    [EmptyMetadata EXCEPT !.title = <<"A", "I", " ", "K", "i", "t">>],
    [EmptyMetadata EXCEPT !.tags = <<"n", "e", "u", "r", "a", "l">>],
    [EmptyMetadata EXCEPT
       !.description = <<"s", "u", "m", "m", "e", "r", " ",
                         "s", "a", "l", "e">>] }

\* the two outcomes of the emoji test, with the first emoji
ThemeDraws == {NoDraws, [NoDraws EXCEPT !.gate = TRUE]}

CallGenerateLayoutThemed ==
  /\ pc = "idle"
  /\ \E tone \in BankTones, objective \in BankObjectives,
        assets \in ThemeAssets, metadata \in ThemeMetadata,
        index \in {0, 1} :
       \E a \in {[fn |-> "generateLayout", tone |-> tone,
                  objective |-> objective, format |-> "square",
                  hasLogo |-> FALSE, assets |-> assets,
                  metadata |-> metadata, index |-> index,
                  count |-> 2, variation |-> Rat(index, 2)]} :
         \E d \in DrawsOf(a, ThemeDraws) :
           /\ args' = a
           /\ draws' = d
           /\ \E r \in {generateLayout(a, d)} : generated' = r
  /\ pc' = "themed"
  /\ UNCHANGED <<i, variants, quotes, response, layout, snapshots>>
  /\ UNCHANGED appVars

\* ------------------------------------------------------------------------
\* The server: requests of several clients, interleaved at their awaits
\* ------------------------------------------------------------------------
\* the assets of the sampled requests: a main asset and a logo, stored as
\* the first and second file of the uploads directory
MainAndLogo == <<UploadedFile(1), UploadedFile(2)>>

\* the schedules sampled for the variants of a render request: either logo
\* corner, the first offset and id schedule, no emoji
RenderSchedules(a) ==
  { [ draws |->
        [k \in 1 .. a.count |->
           [NoDraws EXCEPT !.logo = IF a.hasLogo THEN logo ELSE @,
                           !.rnd = RandomStrings[k + 1]]],
      offsets |-> [k \in 1 .. a.count |-> <<Num(0 - 25), Num(24)>>] ] :
      logo \in LogoDraws }

\* POST /api/generate-variants of a client for the stored assets, with or
\* without the logo
PostGenerateVariantsOfUpload ==
  /\ pc = "idle"
  /\ \E assets \in {MainAndLogo, <<UploadedFile(1)>>} :
       \E body \in { [fn |-> "POST /api/generate-variants",
                      tone |-> "neutral", objective |-> "awareness",
                      format |-> "square", hasAssets |-> TRUE,
                      assets |-> assets] } :
         \E schedule \in RenderSchedules(VariantsCall(body)) :
           \E r \in {GenerateVariantsResponse(body, schedule)} :
             /\ args' = body
             /\ response' = r
  /\ pc' = "variants-responded"
  /\ UNCHANGED <<ui, rendered, uploadsDir, inflight>>
  /\ UNCHANGED canvasVars
  /\ UNCHANGED engineVars

\* the bodies of the sampled render requests: the first variant of the
\* latest response of POST /api/generate-variants with the assets of that
\* request; a variant without a generative layout; a request without assets
RenderBodies ==
  ( IF pc = "variants-responded" /\ response.status = 200
      THEN { [variant |-> response.variants[1], assets |-> args.assets,
              bgRemove |-> FALSE, tone |-> args.tone,
              objective |-> args.objective, format |-> args.format] }
    ELSE {} )
  \cup
  { [variant |-> [layout |-> 0, generativeLayout |-> Null,
                  mainAsset |-> UploadedFile(1)],
     assets |-> assets, bgRemove |-> FALSE, tone |-> "neutral",
     objective |-> "awareness", format |-> "square"] :
      assets \in {MainAndLogo, <<>>} }

\* the bodies of the sampled auto-fix requests: imageUrl absent or present
AutoFixBodies == { [imageUrl |-> url] : url \in {"", "/exports/variant.png"} }

\* the requests that a client sends
Requests ==
  { [kind |-> "render-variant", body |-> body] : body \in RenderBodies }
  \cup { [kind |-> "auto-fix", body |-> body] : body \in AutoFixBodies }

\* POST /api/upload with two files, the first upload of the server: both
\* files are stored
PostUpload ==
  /\ uploadsDir.next = 1
  /\ uploadsDir' = [next |-> uploadsDir.next + 2,
                    files |-> {uploadsDir.next, uploadsDir.next + 1}]
  /\ UNCHANGED <<pc, args, response, ui, rendered, inflight>>
  /\ UNCHANGED canvasVars
  /\ UNCHANGED engineVars

\* DELETE /api/assets/:filename for a stored file
DeleteAsset ==
  /\ \E file \in uploadsDir.files :
       uploadsDir' = [uploadsDir EXCEPT !.files = @ \ {file}]
  /\ UNCHANGED <<pc, args, response, ui, rendered, inflight>>
  /\ UNCHANGED canvasVars
  /\ UNCHANGED engineVars

\* a handler reaches `await loadCanvas()`: loadCanvas returns at once when
\* canvasLoaded is set, else it starts import('canvas')
loadCanvasBegin(c) ==
  /\ inflight[c].at \in {"none", "done"}
  /\ \E request \in Requests :
       inflight' =
         [inflight EXCEPT
            ![c] = [at |-> IF canvasLoaded THEN "ready" ELSE "importing",
                    kind |-> request.kind, body |-> request.body]]
  /\ UNCHANGED <<pc, args, response, ui, rendered, uploadsDir>>
  /\ UNCHANGED canvasVars
  /\ UNCHANGED engineVars

\* an import whose failure forgets a module loaded by another request
loadCanvasEndClearing(c) ==
  /\ inflight[c].at = "importing"
  /\ \E ok \in BOOLEAN :
       /\ createCanvas' = ok
       /\ loadImage' = ok
       /\ canvasLoaded' = ok
  /\ inflight' = [inflight EXCEPT ![c].at = "ready"]
  /\ UNCHANGED <<pc, args, response, ui, rendered, uploadsDir>>
  /\ UNCHANGED engineVars
\* the import of loadCanvas settles: when it succeeds (ok) the module's
\* functions are stored and canvasLoaded is set, and when it fails the catch
\* only warns
loadCanvasEnd(c) ==
  /\ inflight[c].at = "importing"
  /\ \E ok \in BOOLEAN :
       /\ createCanvas' = (ok \/ createCanvas)
       /\ loadImage' = (ok \/ loadImage)
       /\ canvasLoaded' = (ok \/ canvasLoaded)
  /\ inflight' = [inflight EXCEPT ![c].at = "ready"]
  /\ UNCHANGED <<pc, args, response, ui, rendered, uploadsDir>>
  /\ UNCHANGED engineVars

\* the handler without the test of createCanvas and loadImage
AutoFixUnguarded(body, useCanvas, readable) ==
  IF body.imageUrl = ""
    THEN [status |-> 400, error |-> "No image URL provided"]
  ELSE IF ~readable
    THEN [status |-> 500, error |-> "ENOENT"]
  ELSE [status |-> 200, violations |-> runComplianceChecks(<<>>, "square")]
\* POST /api/auto-fix after loadCanvas(); readable: loadImage finds the
\* image of imageUrl in the exports directory
AutoFix(body, useCanvas, readable) ==
  IF ~useCanvas
    THEN [status |-> 503, error |-> "Canvas module not available"]
  ELSE IF body.imageUrl = ""
    THEN [status |-> 400, error |-> "No image URL provided"]
  ELSE IF ~readable
    THEN [status |-> 500, error |-> "ENOENT"]
  ELSE [status |-> 200, violations |-> runComplianceChecks(<<>>, "square")]

\* the rest of the handler after `await loadCanvas()`, up to the response;
\* readable: the image that the handler loads first (the main asset of the
\* variant, the image of imageUrl) can be read
Respond(c) ==
  /\ inflight[c].at = "ready"
  /\ \E readable \in BOOLEAN :
       \E outcome \in
            { IF inflight[c].kind = "render-variant"
                THEN RenderVariant(inflight[c].body,
                                   createCanvas /\ loadImage,
                                   uploadsDir.files)
              ELSE AutoFix(inflight[c].body, createCanvas /\ loadImage,
                           readable) } :
         /\ IF inflight[c].kind = "render-variant"
              THEN readable
                     = (inflight[c].body.variant.mainAsset.src
                          \in uploadsDir.files)
            ELSE readable \/ (/\ createCanvas /\ loadImage
                              /\ inflight[c].body.imageUrl # "")
         /\ inflight' =
              [inflight EXCEPT
                 ![c] = [at |-> "done", kind |-> @.kind, body |-> @.body,
                         canvas |-> createCanvas /\ loadImage,
                         readable |-> readable,
                         outcome |-> outcome]]
  /\ UNCHANGED <<pc, args, response, ui, rendered, uploadsDir>>
  /\ UNCHANGED canvasVars
  /\ UNCHANGED engineVars

\* ------------------------------------------------------------------------
\* POST /api/export-platform and POST /api/export-batch
\* ------------------------------------------------------------------------
\* largest number of entries of the array platforms of a batch request
MaxPlatforms == 2

\* platformSpecs: the formats of each platform, with their dimensions
platformSpecs ==
  [ meta |-> [ square |-> [width |-> 1080, height |-> 1080],
               story |-> [width |-> 1080, height |-> 1920],
               feed |-> [width |-> 1200, height |-> 628] ],
    google |-> [ display |-> [width |-> 300, height |-> 250],
                 banner |-> [width |-> 728, height |-> 90],
                 square |-> [width |-> 250, height |-> 250] ],
    amazon |-> [ main |-> [width |-> 1000, height |-> 1000],
                 thumbnail |-> [width |-> 75, height |-> 75],
                 zoom |-> [width |-> 2000, height |-> 2000] ] ]

\* platform.toLowerCase() for the platform names of the requests
PlatformKey(platform) ==
  IF platform = "Meta" THEN "meta"
  ELSE IF platform = "GOOGLE" THEN "google"
  ELSE platform

\* the handler of /api/export-platform for the body [imageUrl, hasPlatform,
\* platform, format] ("" for an imageUrl or format that is omitted);
\* readable: sharp can read the image of imageUrl.  The response, with its
\* status; the time in the name of the file written is left out.  The
\* value platformSpecs[platformKey] of an inherited name has none of the
\* formats of the requests
ExportPlatform(body, readable) ==
  IF body.imageUrl = ""
    THEN [status |-> 400, error |-> "No image URL provided"]
  ELSE IF ~body.hasPlatform
    THEN [status |-> 500, error |-> "TypeError"]
  ELSE CHOOSE res \in
    { IF \/ KeyKind(platformSpecs, platformKey) # "own"
         \/ formatKey \notin DOMAIN platformSpecs[platformKey]
        THEN [status |-> 400,
              error |-> "Unsupported platform/format combination"]
      ELSE IF ~readable
        THEN [status |-> 500, error |-> "Input file is missing"]
      ELSE [ status |-> 200, success |-> TRUE,
             imageUrl |-> <<"/exports/export", platformKey, formatKey>>,
             platform |-> platformKey, format |-> formatKey,
             dimensions |-> platformSpecs[platformKey][formatKey],
             requirements |-> platformSpecs[platformKey][formatKey] ] :
        platformKey \in {PlatformKey(body.platform)},
        formatKey \in {OrDefault(body.format, "square")} } : TRUE

\* the entries of the array platforms of the requests: supported
\* combinations (one in capitals, one without format), unsupported ones
\* (one with an inherited name), an entry without platform, and null
PlatformConfigs ==
  { [isNull |-> FALSE, hasPlatform |-> TRUE, platform |-> "meta",
     format |-> "square"],
    [isNull |-> FALSE, hasPlatform |-> TRUE, platform |-> "Meta",
     format |-> "story"],
    [isNull |-> FALSE, hasPlatform |-> TRUE, platform |-> "google",
     format |-> ""],
    [isNull |-> FALSE, hasPlatform |-> TRUE, platform |-> "amazon",
     format |-> "square"],
    [isNull |-> FALSE, hasPlatform |-> TRUE, platform |-> "constructor",
     format |-> "square"],
    [isNull |-> FALSE, hasPlatform |-> FALSE, platform |-> "",
     format |-> "square"],
    [isNull |-> TRUE, hasPlatform |-> FALSE, platform |-> "", format |-> ""] }

\* the arrays of at most MaxPlatforms entries
PlatformArrays ==
  UNION { [1 .. n -> PlatformConfigs] : n \in 0 .. MaxPlatforms }

\* a loop that ends at the first export that fails
RECURSIVE ExportLoopAborting(_, _, _, _, _)
ExportLoopAborting(imageUrl, platforms, readable, k, exports) ==
  IF k > Len(platforms) THEN Return(exports)
  ELSE IF platforms[k].isNull THEN Throw
  ELSE CHOOSE out \in
    { IF result.status = 200
        THEN ExportLoopAborting(
               imageUrl, platforms, readable, k + 1,
               Append(exports,
                      [ success |-> TRUE, imageUrl |-> result.imageUrl,
                        platform |-> result.platform,
                        format |-> result.format,
                        dimensions |-> result.dimensions ]))
      ELSE Throw :
        result \in { ExportPlatform(
                       [imageUrl |-> imageUrl,
                        hasPlatform |-> platforms[k].hasPlatform,
                        platform |-> platforms[k].platform,
                        format |-> platforms[k].format],
                       readable[k]) } } : TRUE
\* the loop of /api/export-batch from entry k on: for each platformConfig
\* the request to /api/export-platform, whose data is pushed when the status
\* is 2xx, and whose failure is pushed as an entry with success: false.
\* The destructuring of a null entry throws outside the inner try.
RECURSIVE ExportLoop(_, _, _, _, _)
ExportLoop(imageUrl, platforms, readable, k, exports) ==
  IF k > Len(platforms) THEN Return(exports)
  ELSE IF platforms[k].isNull THEN Throw
  ELSE CHOOSE out \in
    { ExportLoop(imageUrl, platforms, readable, k + 1,
                 Append(exports,
                        IF result.status = 200
                          THEN [ success |-> TRUE,
                                 imageUrl |-> result.imageUrl,
                                 platform |-> result.platform,
                                 format |-> result.format,
                                 dimensions |-> result.dimensions ]
                        ELSE [ success |-> FALSE,
                               hasPlatform |-> platforms[k].hasPlatform,
                               platform |-> platforms[k].platform,
                               format |-> platforms[k].format,
                               error |-> result.error ])) :
        result \in { ExportPlatform(
                       [imageUrl |-> imageUrl,
                        hasPlatform |-> platforms[k].hasPlatform,
                        platform |-> platforms[k].platform,
                        format |-> platforms[k].format],
                       readable[k]) } } : TRUE

\* exports.filter(e => e.success !== false).length
Successful(exports) ==
  Len(SelectSeq(exports, LAMBDA e : e.success # FALSE))

\* the handler of /api/export-batch for the body [imageUrl, isArray,
\* platforms]
ExportBatch(body, readable) ==
  IF body.imageUrl = "" \/ ~body.isArray
    THEN [status |-> 400, error |-> "imageUrl and platforms array required"]
  ELSE CHOOSE res \in
    { IF loop.threw
        THEN [status |-> 500, error |-> "TypeError"]
      ELSE [ status |-> 200, success |-> TRUE, exports |-> loop.value,
             total |-> Len(loop.value),
             successful |-> Successful(loop.value) ] :
        loop \in {ExportLoop(body.imageUrl, body.platforms, readable, 1,
                             <<>>)} } : TRUE

\* POST /api/export-platform with any sampled body
PostExportPlatform ==
  /\ pc = "idle"
  /\ \E imageUrl \in {"", "/exports/variant.png"},
        config \in {c \in PlatformConfigs : ~c.isNull},
        readable \in BOOLEAN :
       \E body \in { [fn |-> "POST /api/export-platform",
                      imageUrl |-> imageUrl,
                      hasPlatform |-> config.hasPlatform,
                      platform |-> config.platform,
                      format |-> config.format] } :
         /\ args' = body
         /\ response' = ExportPlatform(body, readable)
  /\ pc' = "exported"
  /\ UNCHANGED engineVars
  /\ UNCHANGED appVars

\* POST /api/export-batch with any sampled body; readable[k]: the image can
\* be read when entry k is exported (kept with the arguments)
PostExportBatch ==
  /\ pc = "idle"
  /\ \E imageUrl \in {"", "/exports/variant.png"}, isArray \in BOOLEAN,
        platforms \in PlatformArrays :
       \E readable \in [1 .. Len(platforms) -> BOOLEAN] :
         \E body \in { [fn |-> "POST /api/export-batch",
                        imageUrl |-> imageUrl, isArray |-> isArray,
                        platforms |-> platforms, readable |-> readable] } :
           /\ isArray \/ platforms = <<>>
           /\ args' = body
           /\ \E r \in {ExportBatch(body, readable)} : response' = r
  /\ pc' = "batch-exported"
  /\ UNCHANGED engineVars
  /\ UNCHANGED appVars

Next ==
  \/ CallGenerateLayout
  \/ CallGenerateLayoutVariants
  \/ VariantIteration
  \/ OptimizeVariants
  \/ CallGenerateQuoteVariations
  \/ PostGenerateQuotes
  \/ CallOptimizeForPlatform
  \/ OptimizeAgain

Spec == Init /\ [][Next]_vars

\* the application: the requests, from any client
AppNext ==
  \/ PostGenerateVariants

AppSpec == Init /\ [][AppNext]_vars

\* the component and the requests it makes
UiNext ==
  \/ UiUpload
  \/ UiDeleteAsset
  \/ UiGenerateVariants
  \/ UiSelectVariant
  \/ UiChangeControl

UiSpec == Init /\ [][UiNext]_vars

\* generateLayout on themed and unthemed content
ThemeNext ==
  \/ CallGenerateLayoutThemed

ThemeSpec == Init /\ [][ThemeNext]_vars

\* the server under concurrent requests
ServerNext ==
  \/ PostUpload
  \/ PostGenerateVariantsOfUpload
  \/ DeleteAsset
  \/ \E c \in Clients : loadCanvasBegin(c)
  \/ \E c \in Clients : loadCanvasEnd(c)
  \/ \E c \in Clients : Respond(c)

ServerSpec == Init /\ [][ServerNext]_vars

\* the export requests, from any client
ExportNext ==
  \/ PostExportPlatform
  \/ PostExportBatch

ExportSpec == Init /\ [][ExportNext]_vars

\* ------------------------------------------------------------------------
\* Properties
\* ------------------------------------------------------------------------
\* the closed enumerations of the inputs
Tones == {"neutral", "bold", "playful", "premium"}
Objectives == {"awareness", "conversion", "sales"}
Formats == {"square", "story", "banner"}

ClosedInputs(a) ==
  a.tone \in Tones /\ a.objective \in Objectives /\ a.format \in Formats

\* rectangle r keeps the margin safeZone from the four edges of canvas
InsideSafeZone(r, canvas, safeZone) ==
  /\ Ge(r.x, safeZone)
  /\ Ge(r.y, safeZone)
  /\ Le(Add(r.x, r.width), Sub(Num(canvas.width), safeZone))
  /\ Le(Add(r.y, r.height), Sub(Num(canvas.height), safeZone))

DescriptorInsideSafeZone(l, format) ==
  LET safeZone == PLATFORM_OPTIMIZATIONS[format].safeZone
  IN  /\ InsideSafeZone(l.mainAsset, l.dimensions, safeZone)
      /\ l.logo # Null => InsideSafeZone(l.logo, l.dimensions, safeZone)

\* C1: for closed-enumeration inputs and every outcome of the random draws,
\* generateLayout returns a descriptor whose mainAsset rectangle, and logo
\* rectangle when present, lie inside the safe-zone region.
C1_LayoutInsideSafeZone ==
  (pc = "layout" /\ ClosedInputs(args)) =>
    /\ ~generated.threw
    /\ DescriptorInsideSafeZone(generated.value, args.format)

\* a story/sales layout whose main asset the clamp moved against the far
\* margin, with the logo at the top-right anchor
C1_Witness ==
  /\ pc = "layout"
  /\ args.tone = "bold" /\ args.objective = "sales" /\ args.format = "story"
  /\ ~generated.threw
  /\ generated.value.logo # Null
  /\ generated.value.logo.anchor = "top-right"
  /\ generated.value.mainAsset.x = Num(264)
  /\ Add(generated.value.mainAsset.x, generated.value.mainAsset.width)
       = Num(1080 - 60)

\* C2: every descriptor of the generateLayoutVariants / optimizeForPlatform
\* pipeline, the offset variants of index > 0 included, keeps its mainAsset
\* and logo rectangles inside the safe-zone region (stated for the closed
\* enumerations).
C2_PipelineInsideSafeZone ==
  (pc = "optimized" /\ ClosedInputs(args)) =>
    \A k \in 1 .. Len(variants) :
      DescriptorInsideSafeZone(variants[k], args.format)

\* text area / canvas area of a descriptor
CoverageOf(l) ==
  Div(Mul(l.textOverlay.width, l.textOverlay.height),
      Mul(Num(l.dimensions.width), Num(l.dimensions.height)))

\* the limit of a format, the square limit for a format outside the table
CoverageLimit(format) ==
  IF format \in Formats THEN PLATFORM_OPTIMIZATIONS[format].textMaxCoverage
  ELSE PLATFORM_OPTIMIZATIONS.square.textMaxCoverage

\* C3: after optimizeForPlatform, for any format (the square limit for an
\* unknown format), the text coverage of a descriptor with a textOverlay does
\* not exceed the format's textMaxCoverage.
C3_CoverageWithinLimit ==
  (pc = "normalized" /\ layout.textOverlay # Null) =>
    Le(CoverageOf(layout), CoverageLimit(args.platform))

Distinct(s) == \A j, k \in 1 .. Len(s) : j # k => s[j] # s[k]

\* C5: generateQuoteVariations with isAIThemed = false and count = 8, on a
\* bank of exactly 8 entries, returns the bank in bank order, every entry
\* once.
C5_RoundRobinCoverage ==
  (/\ pc = "quotes"
   /\ args.tone \in Tones /\ args.objective \in Objectives
   /\ ~args.isAIThemed
   /\ args.count = 8
   /\ Len(QUOTE_TEMPLATES[args.tone][args.objective]) = 8) =>
     /\ ~quotes.threw
     /\ quotes.value = QUOTE_TEMPLATES[args.tone][args.objective]
     /\ Len(quotes.value) = 8
     /\ Distinct(quotes.value)

C5_Witness ==
  /\ pc = "quotes"
  /\ args.tone = "premium" /\ args.objective = "conversion"
  /\ ~args.isAIThemed
  /\ args.count = 8
  /\ ~quotes.threw
  /\ quotes.value[8] = <<"Choose Refinement">>

\* the bank of a recognized tone and objective
BankOf(tone, objective, isAIThemed) ==
  (IF isAIThemed THEN AI_THEMED_QUOTES ELSE QUOTE_TEMPLATES)[tone][objective]

\* floor((index / count) * length) mod length, in integers
BankPosition(index, count, length) == ((index * length) \div count) % length

BankEntry(tone, objective, isAIThemed, index, count) ==
  LET bank == BankOf(tone, objective, isAIThemed)
  IN  bank[BankPosition(index, count, Len(bank)) + 1]

\* quote is entry, or for tone playful entry followed by a space and one of
\* the five emojis
IsEntryOrEmbellished(quote, entry, tone) ==
  \/ quote = entry
  \/ /\ tone = "playful"
     /\ \E e \in {"U+2728", "U+1F389", "U+1F680", "U+1F4AB", "U+1F381"} :
          quote = entry \o <<" ", e>>

C7_DocumentedResponse ==
  (/\ pc = "responded"
   /\ args.tone = "playful" /\ args.objective = "sales"
   /\ args.hasCount /\ args.count = 5) =>
     /\ response.status = 200
     /\ response.count = 5
     /\ response.quotes = SubSeq(QUOTE_TEMPLATES.playful.sales, 1, 5)

\* the recognized value that an input defaults to
Defaulted(a) ==
  [a EXCEPT !.tone = IF @ \in Tones THEN @ ELSE "neutral",
            !.objective = IF @ \in Objectives THEN @ ELSE "awareness",
            !.format = IF @ \in Formats THEN @ ELSE "square"]

\* the descriptor without the tone, objective and format strings it repeats
\* from the call
WithoutEcho(l) ==
  [dimensions |-> l.dimensions, mainAsset |-> l.mainAsset, logo |-> l.logo,
   textOverlay |-> l.textOverlay, background |-> l.background,
   effects |-> l.effects, compliance |-> l.compliance]

SameOutcome(r1, r2) ==
  /\ r1.threw = r2.threw
  /\ ~r1.threw => WithoutEcho(r1.value) = WithoutEcho(r2.value)

\* C8: generateLayout called with an unrecognized tone, objective or format
\* behaves, under the same random draws, as the call with neutral, awareness
\* or square in its place (the strings of the call that the descriptor
\* repeats are not compared).
C8_DefaultingExact ==
  (pc = "layout" /\ ~ClosedInputs(args)) =>
    SameOutcome(generated, generateLayout(Defaulted(args), draws))

IsNumber(v) == ~IsNaN(v)

FullyPopulated(l) ==
  /\ IsNumber(l.mainAsset.x) /\ IsNumber(l.mainAsset.y)
  /\ IsNumber(l.mainAsset.width) /\ IsNumber(l.mainAsset.height)
  /\ l.textOverlay.quote # UndefinedQuote
  /\ IsNumber(l.compliance.textCoverage)

\* C9: generateLayout has no error outcome: for every string passed as tone,
\* objective or format it returns a fully populated descriptor.
C9_NoErrorOutcome ==
  pc = "layout" => (~generated.threw /\ FullyPopulated(generated.value))

\* C10: a request for count <= 0 variants or quotes ends with an error signal
\* instead of a result.
C10_FailFastOnCount ==
  /\ (pc = "quotes" /\ args.count <= 0) => quotes.threw
  /\ (pc \in {"returned", "optimized"}) => args.count > 0

\* the tone and the objective generateQuote replaces a key by when its lookup
\* finds nothing
ToneOrNeutral(tone) == IF tone \in Tones THEN tone ELSE "neutral"
ObjectiveOrAwareness(objective) ==
  IF objective \in Objectives THEN objective ELSE "awareness"

\* the lookup bank[key] finds nothing: key is no entry of the bank and no
\* property name of Object.prototype
LookupFindsNothing(bank, key) ==
  key \notin DOMAIN bank /\ key \notin ObjectPrototypeKeys

C12_ArgumentUnchanged ==
  (pc = "normalized" /\ Len(snapshots) = 2) => layout = snapshots[1]

\* the parts of a descriptor that two runs are compared on
Compared(l) ==
  [mainAsset |-> l.mainAsset, textOverlay |-> l.textOverlay,
   background |-> l.background, effects |-> l.effects,
   compliance |-> l.compliance]

\* closed-enumeration arguments with a tone other than playful and no logo
DeterministicInputs(a) ==
  ClosedInputs(a) /\ a.tone # "playful" /\ ~a.hasLogo

\* the outcomes <<dx, dy>> that the offset of variant k can have
OffsetsOf(k) == IF k > 0 THEN OffsetDraws ELSE {<<Num(0), Num(0)>>}

ProbeDraws ==
  { d \in AllDraws :
      d.jx = d.jy /\ d.pick = (IF d.gate THEN 4 ELSE 0) }

\* the compared parts without the numbers that the text draw of the sales
\* strategy and the offset of a variant of index k > 0 decide
ComparedApartFromDraws(l, objective, k) ==
  [Compared(l) EXCEPT
     !.textOverlay.y = IF objective = "sales" THEN Num(0) ELSE @,
     !.mainAsset.x = IF k > 0 THEN Num(0) ELSE @,
     !.mainAsset.y = IF k > 0 THEN Num(0) ELSE @]

C14_DistinctIds ==
  (pc = "variants-responded" /\ response.status = 200) =>
    /\ Len(response.variants) = 6
    /\ \A j, k \in 1 .. Len(response.variants) :
         j # k => response.variants[j].generativeLayout.id
                    # response.variants[k].generativeLayout.id

\* C15: generateLayout with tone neutral, objective awareness, format square,
\* variation 0 and hasLogo = false returns dimensions 1080 x 1080, a main
\* asset of width 810 and height 810 at x = 135, y = 135, the position of the
\* 'centered' formula (canvas - asset) / 2, which the safe-zone clamp leaves
\* unchanged, and logo = null.
C15_NeutralAwarenessSquare ==
  (/\ pc = "layout"
   /\ args.tone = "neutral" /\ args.objective = "awareness"
   /\ args.format = "square"
   /\ args.index = 0
   /\ ~args.hasLogo) =>
     /\ ~generated.threw
     /\ generated.value.dimensions = [width |-> 1080, height |-> 1080]
     /\ generated.value.mainAsset.width = Num(810)
     /\ generated.value.mainAsset.height = Num(810)
     /\ generated.value.mainAsset.x = Num((1080 - 810) \div 2)
     /\ generated.value.mainAsset.y = Num((1080 - 810) \div 2)
     /\ generated.value.mainAsset.x = Num(135)
     /\ generated.value.mainAsset.y = Num(135)
     /\ 40 <= 135 /\ 135 + 810 <= 1080 - 40
     /\ generated.value.logo = Null

C15_Witness ==
  /\ pc = "layout"
  /\ args.tone = "neutral" /\ args.objective = "awareness"
  /\ args.format = "square"
  /\ args.index = 0 /\ args.count = 1
  /\ ~args.hasLogo
  /\ ~generated.threw
  /\ generated.value.compliance.safeZone = Num(40)
  /\ generated.value.mainAsset.anchor = "center"

\* C16: generateLayout with tone bold, objective sales, format story returns
\* dimensions 1080 x 1920, a main asset positioned by the 'product-focused'
\* strategy (the first third of each axis, pulled back to the far safe-zone
\* margin), a gradient of direction 'vertical' and a text overlay in the
\* 'urgent' style (fontSize 32, backgroundColor 'rgba(239,68,68,0.9)'); for
\* every descriptor the gradient is non-null exactly when format is 'story',
\* and for every recognized objective the text style is the one keyed by the
\* objective's ctaStyle.
C16_BoldSalesStory ==
  /\ (/\ pc = "layout"
      /\ args.tone = "bold" /\ args.objective = "sales"
      /\ args.format = "story") =>
        /\ ~generated.threw
        /\ generated.value.dimensions = [width |-> 1080, height |-> 1920]
        /\ generated.value.mainAsset.width = Num(756)
        /\ generated.value.mainAsset.height = Num(1344)
        /\ (1080 * 33) \div 100 > 1080 - 756 - 60
        /\ generated.value.mainAsset.x = Num(1080 - 756 - 60)
        /\ (1920 * 33) \div 100 > 1920 - 1344 - 60
        /\ generated.value.mainAsset.y = Num(1920 - 1344 - 60)
        /\ generated.value.background.gradient # Null
        /\ generated.value.background.gradient.direction = "vertical"
        /\ generated.value.textOverlay.fontSize = 32
        /\ generated.value.textOverlay.backgroundColor = "rgba(239,68,68,0.9)"
  /\ (pc = "layout" /\ ~generated.threw) =>
        /\ (generated.value.background.gradient # Null)
             <=> (args.format = "story")
        /\ args.objective \in Objectives =>
             LET style == TextStyles[OBJECTIVE_STRATEGIES[args.objective].ctaStyle]
             IN  /\ generated.value.textOverlay.fontSize = style.fontSize
                 /\ generated.value.textOverlay.fontWeight = style.fontWeight
                 /\ generated.value.textOverlay.backgroundColor
                      = style.backgroundColor
                 /\ generated.value.textOverlay.padding = style.padding

C16_Witness ==
  /\ pc = "layout"
  /\ args.tone = "bold" /\ args.objective = "sales" /\ args.format = "story"
  /\ ~generated.threw
  /\ generated.value.background.gradient # Null
  /\ generated.value.background.gradient.colors = <<"#0f172a", "#1e293b">>
  /\ generated.value.textOverlay.fontWeight = "bold"

\* the stored content string of the variant at position k of the component
StoredQuote(k) == ui.variants[k].generativeLayout.textOverlay.quote

\* C17: every variant the component holds carries one content string, as
\* quote and as text, and it is the variant the generation request returned;
\* a render that succeeded, on the canvas path or on the Sharp path, after
\* any change of the controls, drew the stored string of that variant, and
\* the quote the component shows is a stored string.
C17_StoredQuoteRendered ==
  /\ \A k \in 1 .. Len(ui.variants) :
       /\ Truthy(StoredQuote(k))
       /\ ui.variants[k].generativeLayout.textOverlay.text = StoredQuote(k)
  /\ Len(ui.variants) > 0 =>
       /\ response # Null
       /\ ui.variants = response.variants
  /\ rendered # Null /\ rendered.status = 200 =>
       rendered.text = StoredQuote(rendered.layout + 1)
  /\ ui.currentQuote # NullQuote =>
       \E k \in 1 .. Len(ui.variants) : ui.currentQuote = StoredQuote(k)

\* a variant other than the first is rendered on the canvas path after the
\* tone and the objective were both changed, and its text is not the one
\* the controls would now select
C17_Witness ==
  /\ rendered # Null
  /\ rendered.status = 200
  /\ rendered.path = "canvas"
  /\ rendered.layout = 2
  /\ ui.tone # args.tone
  /\ ui.objective # args.objective
  /\ rendered.text # CanvasTextFromControls(Null, ui.tone, ui.objective)

\* the text rectangle after the rescaling to the limit of the format: width
\* and height times limit / coverage, x and y as before
ScaledToLimit(l, format) ==
  LET factor == Div(CoverageLimit(format), CoverageOf(l))
  IN  [l.textOverlay EXCEPT !.width = Mul(@, factor),
                            !.height = Mul(@, factor)]

\* C18: when the text coverage of the descriptor passed in exceeds the limit
\* of the format (the square limit for a format outside the table),
\* optimizeForPlatform multiplies the width and the height of the textOverlay
\* by limit / coverage and leaves x and y as they were; otherwise the
\* textOverlay is returned unchanged.
C18_ScaledByLimitOverCoverage ==
  (pc = "normalized" /\ snapshots[1].textOverlay # Null) =>
    snapshots[2].textOverlay =
      IF Gt(CoverageOf(snapshots[1]), CoverageLimit(args.platform))
        THEN ScaledToLimit(snapshots[1], args.platform)
        ELSE snapshots[1].textOverlay

\* C18 for the formats of the table and for the strings that no object has
\* as a property
C18_ScaledOwnOrAbsent ==
  (pc = "normalized"
     /\ KeyKind(PLATFORM_OPTIMIZATIONS, args.platform) # "inherited") =>
    C18_ScaledByLimitOverCoverage

\* the safe zone of a format, that of square for a format outside the table
SafeZoneOf(format) ==
  IF format \in Formats THEN PLATFORM_OPTIMIZATIONS[format].safeZone
  ELSE PLATFORM_OPTIMIZATIONS.square.safeZone

\* C19: optimizeForPlatform sets mainAsset.x to max(safeZone, mainAsset.x)
\* and mainAsset.y to max(safeZone, mainAsset.y) for the safe zone of the
\* format (that of square for a format outside the table) and leaves the
\* rest of the main asset as it was: the far edge is not clamped.
C19_OriginRaisedToSafeZone ==
  (pc = "normalized" /\ snapshots[1].mainAsset # Null) =>
    snapshots[2].mainAsset =
      [snapshots[1].mainAsset EXCEPT
         !.x = MathMax(SafeZoneOf(args.platform), @),
         !.y = MathMax(SafeZoneOf(args.platform), @)]

\* C19 for the formats of the table and for the strings that no object has
\* as a property
C19_RaisedOwnOrAbsent ==
  (pc = "normalized"
     /\ KeyKind(PLATFORM_OPTIMIZATIONS, args.platform) # "inherited") =>
    C19_OriginRaisedToSafeZone

\* C20: POST /api/generate-variants with at least one asset answers 200 with
\* exactly 6 variants numbered layout 0..5, each with a logo exactly when
\* more than one asset was supplied and each normalized by optimizeForPlatform
\* for the requested format; without assets, or with an empty list, it
\* answers 400 'No assets provided' and no variants.
C20_SixVariantsOr400 ==
  pc = "variants-responded" =>
    IF NoAssets(args)
      THEN /\ response.status = 400
           /\ response.error = "No assets provided"
           /\ response.variants = <<>>
      ELSE /\ response.status = 200
           /\ Len(response.variants) = RequestedVariants
           /\ \A k \in 1 .. Len(response.variants) :
                LET v == response.variants[k]
                IN  /\ v.layout = k - 1
                    /\ (v.generativeLayout.logo # Null)
                         <=> (Len(args.assets) > 1)
                    /\ optimizeForPlatform(v.generativeLayout,
                                           VariantsCall(args).format)
                         = v.generativeLayout

\* C20 for the requests none of whose tone, objective and format is the name
\* of an inherited property
C20_OwnOrAbsent ==
  (/\ pc = "variants-responded"
   /\ KeyKind(TONE_PARAMETERS, args.tone) # "inherited"
   /\ KeyKind(OBJECTIVE_STRATEGIES, args.objective) # "inherited"
   /\ KeyKind(PLATFORM_OPTIMIZATIONS, args.format) # "inherited") =>
    C20_SixVariantsOr400

\* the text searched for keywords: the asset names, then the description,
\* the title and the tags, in small letters, one space between two fields
SearchedText(a) ==
  toLowerCase(join([k \in 1 .. Len(a.assets) |-> a.assets[k].name]
                   \o <<a.metadata.description, a.metadata.title,
                        a.metadata.tags>>))

\* a keyword occurs in the text, at some position
KeywordOccurs(a) ==
  \E k \in 1 .. Len(aiKeywords) :
    \E p \in 1 .. Len(SearchedText(a)) :
      /\ p + Len(aiKeywords[k]) - 1 <= Len(SearchedText(a))
      /\ \A j \in 1 .. Len(aiKeywords[k]) :
           SearchedText(a)[p + j - 1] = aiKeywords[k][j]

\* the entries of a bank under tone and objective, each as it is or with
\* the emoji that enhanceQuote may append
BankQuotes(bank, tone, objective) ==
  LET entries == {bank[tone][objective][k] :
                    k \in 1 .. Len(bank[tone][objective])}
  IN  entries \cup {q \o <<" ", EnhanceEmojis[k]>> :
                       q \in entries, k \in 1 .. Len(EnhanceEmojis)}

C29_VariantsReferenceLiveAssets ==
  \A k \in 1 .. Len(ui.variants) :
    /\ \E j \in 1 .. Len(ui.assets) :
         ui.assets[j].id = ui.variants[k].mainAsset.id
    /\ ui.variants[k].mainAsset.src \in uploadsDir.files

\* the answered requests of the server, with what the handler saw
Answered == {c \in Clients : inflight[c].at = "done"}

\* the rectangle r has a side less than 40px from an edge of the image
NearEdge(r, width, height) ==
  \/ Lt(r.x, MIN_SAFE_ZONE)
  \/ Lt(r.y, MIN_SAFE_ZONE)
  \/ Gt(Add(r.x, r.width), Sub(Num(width), MIN_SAFE_ZONE))
  \/ Gt(Add(r.y, r.height), Sub(Num(height), MIN_SAFE_ZONE))

\* C22: a rendered image whose compliance checks ran carries the violation
\* 'logo-safe-zone' exactly when a logo was drawn and the rectangle it was
\* drawn in comes closer than 40px to an edge of the image.
C22_LogoViolationIffNearEdge ==
  \A c \in Answered :
    (/\ inflight[c].kind = "render-variant"
     /\ inflight[c].outcome.status = 200
     /\ inflight[c].canvas)
    => LET outcome == inflight[c].outcome
       IN  ("logo-safe-zone" \in outcome.violations)
             <=> (/\ outcome.logo # Null
                  /\ NearEdge(outcome.logo, outcome.width, outcome.height))

Moves(c, from, to) == inflight[c].at \in from /\ inflight'[c].at = to

\* C28: the variables of loadCanvas, once set, stay set; they are set
\* together, and only by an import that settles; a call made while
\* canvasLoaded is set returns without importing, and a call made while it
\* is not set starts the import, whatever other imports are under way.
C28_OneWayLatch ==
  [][ /\ canvasLoaded => canvasLoaded'
      /\ createCanvas => createCanvas'
      /\ loadImage => loadImage'
      /\ canvasLoaded' = createCanvas' /\ canvasLoaded' = loadImage'
      /\ canvasLoaded' /\ ~canvasLoaded
           => \E c \in Clients : Moves(c, {"importing"}, "ready")
      /\ \A c \in Clients :
           /\ Moves(c, {"none", "done"}, "ready") => canvasLoaded
           /\ Moves(c, {"none", "done"}, "importing") => ~canvasLoaded
           /\ inflight[c].at \in {"none", "done"}
                => inflight'[c].at \in {inflight[c].at, "ready", "importing"}
           /\ Moves(c, {"importing"}, "ready")
                => canvasVars' \in {canvasVars, <<TRUE, TRUE, TRUE>>}
    ]_vars

\* the import of one request has succeeded while the import that another
\* request began before that success is still under way
C28_Witness ==
  \E c \in Clients, d \in Clients :
    /\ canvasLoaded
    /\ c # d
    /\ inflight[c].at = "ready"
    /\ inflight[d].at = "importing"

\* the number of quotes that the claim gives for the request a
QuotesAsked(a) ==
  IF ~a.hasCount THEN 5 ELSE IF a.count < 10 THEN a.count ELSE 10

\* C30: a request for count >= 1 quotes, or without count, is answered with
\* min(count, 10) quotes (5 without count) and with count equal to their
\* number, and every quote is an entry of the standard bank under the tone
\* and objective that the request defaults to, also when its assets and
\* metadata name an AI keyword.
C30_QuotesOfStandardBank ==
  (/\ pc = "responded"
   /\ args.hasCount => args.count >= 1) =>
    /\ response.status = 200
    /\ Len(response.quotes) = QuotesAsked(args)
    /\ response.count = Len(response.quotes)
    /\ \A k \in 1 .. Len(response.quotes) :
         \E j \in 1 .. Len(QUOTE_TEMPLATES[ToneOrNeutral(args.tone)]
                                          [ObjectiveOrAwareness(args.objective)]) :
           response.quotes[k] =
             QUOTE_TEMPLATES[ToneOrNeutral(args.tone)]
                            [ObjectiveOrAwareness(args.objective)][j]

\* C30 for the requests whose tone and objective are not the name of an
\* inherited property
C30_OwnOrAbsent ==
  (/\ pc = "responded"
   /\ KeyKind(QUOTE_TEMPLATES, args.tone) # "inherited"
   /\ KeyKind(QUOTE_TEMPLATES.neutral, args.objective) # "inherited") =>
    C30_QuotesOfStandardBank

\* a request for more than 10 quotes that carries an AI keyword and is
\* answered with 10 quotes
C30_Witness ==
  /\ pc = "responded"
  /\ args.hasCount /\ args.count > 10
  /\ detectAITheme(args.assets, args.metadata)
  /\ response.status = 200
  /\ Len(response.quotes) = 10

\* the position (from 0) of the entry of bank that quote is, with or
\* without the emoji appended for tone playful
PositionOf(quote, bank, tone) ==
  CHOOSE p \in 0 .. (Len(bank) - 1) :
    IsEntryOrEmbellished(quote, bank[p + 1], tone)

\* the quotes of the sequence are entries of the bank at strictly increasing
\* positions, and pairwise distinct
StrictlyIncreasing(chosen, bank, tone) ==
  \A j \in 1 .. Len(chosen), k \in 1 .. Len(chosen) :
    j < k => /\ PositionOf(chosen[j], bank, tone)
                  < PositionOf(chosen[k], bank, tone)
             /\ chosen[j] # chosen[k]

\* C27: for a recognized tone and objective and 1 <= count <= L, the quotes
\* of generateQuoteVariations and of the descriptors of
\* generateLayoutVariants are entries of the bank of length L at strictly
\* increasing positions, hence pairwise distinct; for count > L some entry
\* is selected twice.
C27_PositionsIncrease ==
  /\ (pc = "quotes" /\ args.tone \in Tones /\ args.objective \in Objectives
      /\ args.count >= 1) =>
       LET bank == BankOf(args.tone, args.objective, args.isAIThemed)
       IN  /\ ~quotes.threw
           /\ Distinct(bank)
           /\ args.count <= Len(bank) =>
                StrictlyIncreasing(quotes.value, bank, "neutral")
           /\ args.count > Len(bank) =>
                \E j \in 1 .. args.count, k \in 1 .. args.count :
                  j < k /\ quotes.value[j] = quotes.value[k]
  /\ (pc \in {"returned", "optimized"} /\ ClosedInputs(args)
      /\ args.count >= 1) =>
       LET bank == BankOf(args.tone, args.objective,
                          detectAITheme(args.assets, args.metadata))
       IN  /\ Len(variants) = args.count
           /\ args.count <= Len(bank) =>
                StrictlyIncreasing(
                  [k \in 1 .. Len(variants) |-> variants[k].textOverlay.quote],
                  bank, args.tone)

\* as many quotes as the bank has entries: the whole bank, in its order
C27_Witness ==
  /\ pc = "quotes"
  /\ args.tone = "premium" /\ args.objective = "sales" /\ ~args.isAIThemed
  /\ args.count = 8
  /\ ~quotes.threw
  /\ quotes.value = QUOTE_TEMPLATES.premium.sales

\* C25: for the recognized tones, objectives and formats and every draw, the
\* text rectangle of the descriptor that generateLayout returns covers no
\* more of the canvas than textMaxCoverage of the format, and
\* optimizeForPlatform for that format returns its textOverlay unchanged;
\* so do the descriptors of generateLayoutVariants.
C25_GeneratedTextNeverRescaled ==
  /\ (pc = "layout" /\ ClosedInputs(args)) =>
       /\ ~generated.threw
       /\ Le(CoverageOf(generated.value), CoverageLimit(args.format))
       /\ optimizeForPlatform(generated.value, args.format).textOverlay
            = generated.value.textOverlay
  /\ (pc = "returned" /\ ClosedInputs(args)) =>
       \A k \in 1 .. Len(variants) :
         /\ Le(CoverageOf(variants[k]), CoverageLimit(args.format))
         /\ optimizeForPlatform(variants[k], args.format).textOverlay
              = variants[k].textOverlay

\* a sales descriptor for the format story, whose text covers 0.8 x 0.15 of
\* the canvas under the limit 0.15
C25_Witness ==
  /\ pc = "layout"
  /\ args.tone = "bold" /\ args.objective = "sales" /\ args.format = "story"
  /\ ~generated.threw
  /\ generated.value.textOverlay.width = Num(864)
  /\ generated.value.textOverlay.height = Num(288)

\* rectangle r lies within the canvas
InsideCanvas(r, canvas) ==
  /\ Ge(r.x, Num(0))
  /\ Ge(r.y, Num(0))
  /\ Le(Add(r.x, r.width), Num(canvas.width))
  /\ Le(Add(r.y, r.height), Num(canvas.height))

\* C26: for the recognized tones, objectives and formats and every draw, the
\* textOverlay of the descriptor that generateLayout returns lies within the
\* canvas.
C26_TextInsideCanvas ==
  (pc = "layout" /\ ClosedInputs(args)) =>
    /\ ~generated.threw
    /\ InsideCanvas(generated.value.textOverlay, generated.value.dimensions)

\* C26 for the objectives whose text position is not drawn
C26_FixedPositions ==
  (pc = "layout" /\ args.objective # "sales") => C26_TextInsideCanvas

\* entry is the entry that the batch returns for config: the export of the
\* platform in small letters and the format, square when omitted, or the
\* failure of the platform and format as requested
EntryFor(entry, config) ==
  IF entry.success # FALSE
    THEN /\ entry.platform = PlatformKey(config.platform)
         /\ entry.format = OrDefault(config.format, "square")
  ELSE /\ entry.hasPlatform = config.hasPlatform
       /\ entry.platform = config.platform
       /\ entry.format = config.format

\* the number of entries of exports that are not marked success = false
NotMarkedFailed(exports) ==
  Cardinality({k \in 1 .. Len(exports) : exports[k].success # FALSE})

\* C24: a batch request with an imageUrl and an array of {platform, format}
\* objects is answered with one entry per object, in the order of the
\* request, a failed export as an entry with success = false; total is the
\* number of objects and successful the number of entries not marked
\* success = false.
C24_OneEntryPerPlatform ==
  (/\ pc = "batch-exported"
   /\ args.imageUrl # "" /\ args.isArray
   /\ \A k \in 1 .. Len(args.platforms) : ~args.platforms[k].isNull) =>
    /\ response.status = 200
    /\ response.total = Len(args.platforms)
    /\ Len(response.exports) = Len(args.platforms)
    /\ \A k \in 1 .. Len(args.platforms) :
         /\ EntryFor(response.exports[k], args.platforms[k])
         /\ response.exports[k].success
              = (ExportPlatform([imageUrl |-> args.imageUrl,
                                 hasPlatform |-> args.platforms[k].hasPlatform,
                                 platform |-> args.platforms[k].platform,
                                 format |-> args.platforms[k].format],
                                args.readable[k]).status = 200)
    /\ response.successful = NotMarkedFailed(response.exports)

\* an unsupported combination first and a supported one second: the failure
\* is recorded and the second export is made
C24_Witness ==
  /\ pc = "batch-exported"
  /\ response.status = 200
  /\ response.total = 2
  /\ response.successful = 1
  /\ ~response.exports[1].success
  /\ response.exports[1].platform = "amazon"
  /\ response.exports[2].success
  /\ response.exports[2].platform = "meta"
  /\ response.exports[2].format = "story"

\* a batch whose array holds null is answered 500
C24_NullEntry ==
  /\ pc = "batch-exported"
  /\ args.imageUrl # "" /\ args.isArray
  /\ \E k \in 1 .. Len(args.platforms) : args.platforms[k].isNull
  /\ response.status = 500
====
